---------------------------- MODULE Spec2Model ----------------------------
(***************************************************************************)
(* A model of the invoice-harvesting pipeline of gmailConnectorTest        *)
(* (src/main.py, src/helper_functions.py).                                 *)
(*                                                                         *)
(* The pipeline stages are modelled as separate state machines over one    *)
(* set of variables; each stage has its own specification:                 *)
(*   SpecList    fetch_message_ids              (Candidate Lister)         *)
(*   SpecFetch   get_messages_metadata_batch /                             *)
(*               get_messages_full_batch        (Batch Fetcher)            *)
(*   SpecLookup  create_metadata_lookup         (Metadata Interpreter)     *)
(*   SpecArchive get_attachments_messages, then                            *)
(*               fetch_and_upload_attachments   (Document Extractor,       *)
(*                                               Archival Worker)          *)
(*   SpecRearchive  fetch_and_upload_attachments called repeatedly on the  *)
(*               same records                   (Archival Worker,          *)
(*                                               Key Deriver)              *)
(*   SpecMain    main as it runs: steps 1 and 2  (Pipeline Coordinator)    *)
(*   SpecPipeline  steps 1 to 4 of main composed (Pipeline Coordinator)    *)
(*   SpecHarvest   steps 4 to 6 of main composed (Pipeline Coordinator)    *)
(* A Python dict is a sequence of <<key, value>> pairs in insertion order. *)
(* A Python str is a sequence of one-character strings.                    *)
(***************************************************************************)
EXTENDS Integers, Sequences, FiniteSets, TLC

VARIABLES
    \* ---- Candidate Lister (fetch_message_ids) ----
    pages,            \* the remote store's answer to the query, page by page
    list_pc,          \* "start" | "loop" | "returned"
    response,         \* the last page response received
    messages,         \* the local list `messages`
    message_ids,      \* the value returned by fetch_message_ids
    list_requests,    \* history: the pageToken of every list request issued
    list_error,       \* history: logging.error("Error fetching message list") ran
    \* ---- Batch Fetcher (get_messages_*_batch) ----
    granularity,      \* "metadata" | "full": which of the two functions runs
    input_ids,        \* the id list handed to the fetcher
    batch_size,       \* the batch_size argument
    answer,           \* the remote store's per-id answer: id -> "ok"|"err"|"rate"
    batch_pc,         \* "loop" | "sleep" | "returned"
    batch_num,        \* the loop variable batch_num
    result_map,       \* message_metadata_map / message_full_payload_map
    chunk_log,        \* history: one record per chunk requested
    sleeps,           \* history: batch_num of every time.sleep(delay_between_batches)
    \* ---- Metadata Interpreter (create_metadata_lookup) ----
    lookup_pc,        \* "loop" | "item_done" | "returned"
    meta_total,       \* len(message_metadata_map) of the interpreter's input
    meta_ids,         \* the keys of message_metadata_map, in dict order
    meta_seen,        \* number of items the for loop has visited
    message_data,     \* the item of the current iteration (None between iterations)
    metadata_lookup,  \* the dict being built
    item_trace,       \* the locals of the current iteration
    \* ---- Document Extractor (get_attachments_messages) ----
    ext_pc,           \* "loop" | "item_done" | "returned"
    full_ids,         \* the keys of message_full_payload_map, in dict order
    ext_seen,         \* number of items the for loop has visited
    ext_payload,      \* message_data['payload'] of the current iteration
    attachments,      \* the local list `attachments` of the current iteration
    ext_calls,        \* history: the extract_attachments_from_payload calls
                      \* of the current iteration, argument and result
    attachments_messages, \* the dict being built: attachmentId -> [id, filename]
    accepted_seen,    \* history: parts of the trees visited so far that
                      \* extract_attachments_from_payload accepts
    \* ---- Archival Worker (fetch_and_upload_attachments) ----
    arch_pc,          \* "loop" | "delay" | "cooldown" | "returned"
    arch_run,         \* how many times the worker has been called
    key_log,          \* history: every key create_filename returned, with
                      \* the arguments of the call
    arch_i,           \* the loop variable i of enumerate
    upload_results,   \* the dict being built: attachmentId -> outcome
    arch_sleeps,      \* history: every time.sleep of the worker
    arch_trace,       \* the locals of the last attempt
    bucket,           \* the object store: key -> bytes
    labelled,         \* the remote store: ids carrying the processed label
    \* ---- Pipeline Coordinator (main) ----
    main_pc,          \* the step of main that is running, "returned" at its end
    metadata_file     \* the content of message_metadata.json

listVars   == <<pages, list_pc, response, messages, message_ids,
                list_requests, list_error>>
fetchVars  == <<granularity, input_ids, batch_size, answer, batch_pc,
                batch_num, result_map, chunk_log, sleeps>>
lookupVars == <<lookup_pc, meta_total, meta_ids, meta_seen, message_data,
                metadata_lookup, item_trace>>
extractVars == <<ext_pc, full_ids, ext_seen, ext_payload, attachments,
                 ext_calls, attachments_messages, accepted_seen>>
archVars   == <<arch_pc, arch_run, arch_i, upload_results, arch_sleeps,
                arch_trace, key_log, bucket, labelled>>
mainVars   == <<main_pc, metadata_file>>
vars       == <<listVars, fetchVars, lookupVars, extractVars, archVars,
                mainVars>>

-----------------------------------------------------------------------------
(* Bounds of the model.                                                    *)
MaxPages     == 3    \* pages the remote store answers a query with
MaxPageItems == 2    \* items on one page
MaxIds       == 3    \* length of the id list handed to the Batch Fetcher
MaxBatch     == 3    \* largest batch_size tried
MaxItems     == 3    \* items in the Metadata Interpreter's input map
MaxFull      == 2    \* items of the lookup handed to the later stages
MaxRuns      == 2    \* calls of the Archival Worker on the same records
MaxRecords   == 2    \* attachment records handed to the worker directly
MaxListed    == 2    \* ids listed in a run of the composed steps 1 to 4

None == "None"

\* None where a str is expected (a str is a sequence of one-character
\* strings, so no str equals it)
NoneStr == <<"None">>

-----------------------------------------------------------------------------
(* Python helpers.                                                         *)

RECURSIVE SeqSum(_)
SeqSum(s) == IF s = <<>> THEN 0 ELSE Head(s) + SeqSum(Tail(s))

Range(s) == {s[i] : i \in DOMAIN s}

Min(a, b) == IF a < b THEN a ELSE b

\* s[a:b] with Python's 0-based, end-exclusive, clamped indices
Slice(s, a, b) == SubSeq(s, a + 1, Min(b, Len(s)))

\* dict: keys in insertion order
DictKeys(d) == [i \in DOMAIN d |-> d[i][1]]
DictKeySet(d) == {d[i][1] : i \in DOMAIN d}
DictGet(d, k) == (CHOOSE i \in DOMAIN d : d[i][1] = k)
DictValue(d, k) == d[DictGet(d, k)][2]

\* d[k] = v : an existing key keeps its position, a new key is appended
DictSet(d, k, v) ==
    IF k \in DictKeySet(d)
    THEN [i \in DOMAIN d |-> IF d[i][1] = k THEN <<k, v>> ELSE d[i]]
    ELSE Append(d, <<k, v>>)

\* d.update(e)
RECURSIVE DictUpdate(_, _)
DictUpdate(d, e) ==
    IF e = <<>> THEN d
    ELSE DictUpdate(DictSet(d, Head(e)[1], Head(e)[2]), Tail(e))

-----------------------------------------------------------------------------
(* Candidate Lister: fetch_message_ids (src/main.py 12-42).                *)

NoToken == 0

\* The remote store: pages of message stubs {id}; page i of n carries
\* nextPageToken i when i < n and none when i = n. Ids are unique and
\* numbered in listing order.
PageOf(sizes, i) ==
    LET before == SeqSum(SubSeq(sizes, 1, i - 1))
    IN  [messages      |-> [j \in 1..sizes[i] |-> [id |-> before + j]],
         nextPageToken |-> IF i < Len(sizes) THEN i ELSE NoToken]

PagesOf(sizes) == [i \in DOMAIN sizes |-> PageOf(sizes, i)]

\* service.users().messages().list(..., pageToken=token).execute()
ListCall(token) == pages[token + 1]

\* while 'nextPageToken' in response
HasNextPageStopOnEmpty(resp) ==
    resp.nextPageToken # NoToken /\ resp.messages # <<>>

HasNextPage(resp) == resp.nextPageToken # NoToken

\* message_ids = [msg['id'] for msg in messages]
IdsOf(msgs) == [i \in DOMAIN msgs |-> msgs[i].id]

\* except Exception: ... return []
ListErrorResultPartial(msgs) == IdsOf(msgs)

ListErrorResult(msgs) == <<>>

\* the message stubs {id} of a list of ids
IdsToStubs(ids) == [i \in DOMAIN ids |-> [id |-> ids[i]]]

NoResponse == [messages |-> <<>>, nextPageToken |-> NoToken]

ListInit ==
    /\ \E n \in 1..MaxPages :
         \E sizes \in [1..n -> 0..MaxPageItems] : pages = PagesOf(sizes)
    /\ list_pc = "start"
    /\ response = NoResponse
    /\ messages = <<>>
    /\ message_ids = <<>>
    /\ list_requests = <<>>
    /\ list_error = FALSE

ListIdle ==
    /\ pages = <<>>
    /\ list_pc = "idle"
    /\ response = NoResponse
    /\ messages = <<>>
    /\ message_ids = <<>>
    /\ list_requests = <<>>
    /\ list_error = FALSE

\* lines 17-25: the first page request succeeds
ListFirstPage ==
    /\ list_pc = "start"
    /\ response' = ListCall(NoToken)
    /\ messages' = response'.messages
    /\ list_requests' = Append(list_requests, NoToken)
    /\ list_pc' = "loop"
    /\ UNCHANGED <<mainVars, pages, message_ids, list_error, fetchVars, lookupVars,
                   extractVars, archVars>>

\* lines 27-34: one iteration of the while loop, the request succeeds
ListNextPage ==
    /\ list_pc = "loop"
    /\ HasNextPage(response)
    /\ response' = ListCall(response.nextPageToken)
    /\ messages' = messages \o response'.messages
    /\ list_requests' = Append(list_requests, response.nextPageToken)
    /\ UNCHANGED <<mainVars, pages, list_pc, message_ids, list_error, fetchVars, lookupVars,
                   extractVars, archVars>>

\* lines 36-38: the loop ended, the ids are returned
ListReturn ==
    /\ list_pc = "loop"
    /\ ~HasNextPage(response)
    /\ message_ids' = IdsOf(messages)
    /\ list_pc' = "returned"
    /\ UNCHANGED <<mainVars, pages, response, messages, list_requests, list_error,
                   fetchVars, lookupVars,
                   extractVars, archVars>>

\* lines 40-42: a list request raises (transport or auth error)
ListRequestFails ==
    /\ \/ list_pc = "start" /\ list_requests' = Append(list_requests, NoToken)
       \/ /\ list_pc = "loop"
          /\ HasNextPage(response)
          /\ list_requests' = Append(list_requests, response.nextPageToken)
    /\ list_error' = TRUE
    /\ message_ids' = ListErrorResult(messages)
    /\ list_pc' = "returned"
    /\ UNCHANGED <<mainVars, pages, response, messages, fetchVars, lookupVars,
                   extractVars, archVars>>

ListNext ==
    \/ ListFirstPage
    \/ ListNextPage
    \/ ListReturn
    \/ ListRequestFails

-----------------------------------------------------------------------------
(* Claims about the Candidate Lister, checked under SpecList.              *)

\* The ids of pages 1..k of the remote answer, in page order
RECURSIVE ConcatPageIds(_)
ConcatPageIds(k) ==
    IF k = 0 THEN <<>>
    ELSE ConcatPageIds(k - 1) \o IdsOf(pages[k].messages)

\* The request for page i carries no token (i = 1) or the cursor of the
\* response to request i-1
ExpectedToken(i) == IF i = 1 THEN NoToken ELSE pages[i - 1].nextPageToken

\* C1: when no request fails, fetch_message_ids issues one list request per
\* page, each request after the first carrying the cursor of the previous
\* response, and returns the concatenation of all pages' ids in page order;
\* an empty page that carries a cursor does not end the walk.
C1_ListWalksAllPages ==
    /\ Len(list_requests) <= Len(pages)
    /\ \A i \in DOMAIN list_requests : list_requests[i] = ExpectedToken(i)
    /\ (list_pc = "returned" /\ ~list_error) =>
          /\ Len(list_requests) = Len(pages)
          /\ message_ids = ConcatPageIds(Len(pages))

\* a finished walk over an empty page with a cursor, followed by a page
\* with items
C1_Witness ==
    /\ list_pc = "returned"
    /\ ~list_error
    /\ \E i \in 1..(Len(pages) - 1) :
         /\ pages[i].messages = <<>>
         /\ pages[i + 1].messages # <<>>
    /\ message_ids # <<>>

-----------------------------------------------------------------------------
(* Batch Fetcher: get_messages_metadata_batch / _process_metadata_batch    *)
(* (src/main.py 44-130) and get_messages_full_batch /                      *)
(* _process_single_batch (src/main.py 215-299). The two pairs differ in    *)
(* the format requested and in the map's name only.                        *)

\* The messages of the mailbox; the fetcher's input is a list of distinct
\* ids among them (ids come from the listing or from the keys of a dict).
MailboxIds == 1..MaxIds

Outcomes == {"ok", "err", "rate"}

\* What the remote store answers for one sub-request: unknown ids fail
RemoteAnswer(id) == IF id \in DOMAIN answer THEN answer[id] ELSE "err"

\* The payload of a successful sub-request
Payload(fmt, id) == [id |-> id, format |-> fmt]

\* metadata_callback / full_payload_callback
CallbackStoreAlways(map, request_id, resp, exception) ==
    DictSet(map, request_id, resp)

Callback(map, request_id, resp, exception) ==
    IF exception # None
    THEN map
    ELSE DictSet(map, request_id, resp)

\* batch.execute() that returns: the callback runs once per request, in the
\* order the requests were added
RECURSIVE RunCallbacks(_, _, _)
RunCallbacks(map, ids, fmt) ==
    IF ids = <<>> THEN map
    ELSE LET id   == Head(ids)
             exc  == IF RemoteAnswer(id) = "ok" THEN None ELSE RemoteAnswer(id)
             resp == IF exc = None THEN Payload(fmt, id) ELSE None
         IN  RunCallbacks(Callback(map, id, resp, exc), Tail(ids), fmt)

\* _process_metadata_batch / _process_single_batch: raised is "none" when
\* batch.execute() returns, "error" or "quota" when it raises (the request
\* is rejected as a whole, before any callback runs)
ProcessBatch(ids, fmt, raised) ==
    IF raised # "none" THEN <<>> ELSE RunCallbacks(<<>>, ids, fmt)

\* total_batches = (len(message_ids) + batch_size - 1) // batch_size
TotalBatchesFloor(n, size) == n \div size

TotalBatches(n, size) == (n + size - 1) \div size

\* batch_message_ids = message_ids[start_idx:end_idx]
BatchSliceOverlapping(ids, num, size) ==
    LET start_idx == IF num = 0 THEN 0 ELSE num * size - 1
        end_idx   == Min(num * size + size, Len(ids))
    IN  Slice(ids, start_idx, end_idx)

BatchSliceFromStart(ids, num, size) ==
    Slice(ids, 0, Min(num * size + size, Len(ids)))

BatchSliceByIndex(ids, num, size) ==
    [i \in 1..(Min(num * size + size, Len(ids)) - num * size) |->
        num * size + i - 1]

BatchSlice(ids, num, size) ==
    LET start_idx == num * size
        end_idx   == Min(start_idx + size, Len(ids))
    IN  Slice(ids, start_idx, end_idx)

\* if batch_num < total_batches - 1 (lines 76 / 249): the delay is skipped
\* after the last batch
DelayAfterEvery(num, total_batches) == TRUE

DelayAfter(num, total_batches) == num < total_batches - 1

\* message_metadata_map.update(batch_results)
MergeAssign(map, batch_results) == batch_results

Merge(map, batch_results) == DictUpdate(map, batch_results)

\* Sequences of distinct ids of length at most MaxIds
DistinctSeqs ==
    UNION {{s \in [1..n -> MailboxIds] :
              \A i, j \in 1..n : i # j => s[i] # s[j]} : n \in 0..MaxIds}

FetchInit ==
    /\ granularity \in {"metadata", "full"}
    /\ input_ids \in DistinctSeqs
    /\ batch_size \in 1..MaxBatch
    /\ answer \in [MailboxIds -> Outcomes]
    /\ batch_pc = "start"
    /\ batch_num = 0
    /\ result_map = <<>>
    /\ chunk_log = <<>>
    /\ sleeps = <<>>

\* lines 56-58 / 229-231: nothing to fetch
FetchNoIds ==
    /\ batch_pc = "start"
    /\ input_ids = <<>>
    /\ batch_pc' = "returned"
    /\ UNCHANGED <<mainVars, granularity, input_ids, batch_size, answer, batch_num,
                   result_map, chunk_log, sleeps, listVars, lookupVars,
                   extractVars, archVars>>

\* lines 61-64 / 234-237: total_batches is computed, the loop is entered
FetchBegin ==
    /\ batch_pc = "start"
    /\ input_ids # <<>>
    /\ batch_pc' = "loop"
    /\ UNCHANGED <<mainVars, granularity, input_ids, batch_size, answer, batch_num,
                   result_map, chunk_log, sleeps, listVars, lookupVars,
                   extractVars, archVars>>

\* One iteration of the for loop up to the delay (lines 65-73 / 238-246),
\* with _process_metadata_batch / _process_single_batch inlined
FetchIteration(raised) ==
    LET total_batches     == TotalBatches(Len(input_ids), batch_size)
        batch_message_ids == BatchSlice(input_ids, batch_num, batch_size)
        batch_results     == ProcessBatch(batch_message_ids, granularity, raised)
    IN  /\ batch_pc = "loop"
        /\ batch_num < total_batches
        /\ result_map' = Merge(result_map, batch_results)
        /\ chunk_log' = Append(chunk_log, [ids     |-> batch_message_ids,
                                           raised  |-> raised,
                                           results |-> batch_results])
        /\ IF DelayAfter(batch_num, total_batches)
           THEN batch_pc' = "sleep" /\ batch_num' = batch_num
           ELSE batch_pc' = "loop" /\ batch_num' = batch_num + 1
        /\ UNCHANGED <<mainVars, granularity, input_ids, batch_size, answer, sleeps,
                       listVars, lookupVars,
                   extractVars, archVars>>

\* batch.execute() returns: every sub-request got its callback
FetchChunk == FetchIteration("none")

\* batch.execute() raises (lines 125-128 / 293-297)
FetchChunkFails == \E raised \in {"error", "quota"} : FetchIteration(raised)

\* lines 76-78 / 249-251: time.sleep(delay_between_batches)
FetchSleep ==
    /\ batch_pc = "sleep"
    /\ sleeps' = Append(sleeps, batch_num)
    /\ batch_num' = batch_num + 1
    /\ batch_pc' = "loop"
    /\ UNCHANGED <<mainVars, granularity, input_ids, batch_size, answer, result_map,
                   chunk_log, listVars, lookupVars,
                   extractVars, archVars>>

\* lines 80-81 / 253-254: the loop is over
FetchReturn ==
    /\ batch_pc = "loop"
    /\ batch_num >= TotalBatches(Len(input_ids), batch_size)
    /\ batch_pc' = "returned"
    /\ UNCHANGED <<mainVars, granularity, input_ids, batch_size, answer, batch_num,
                   result_map, chunk_log, sleeps, listVars, lookupVars,
                   extractVars, archVars>>

FetchNext ==
    \/ FetchNoIds
    \/ FetchBegin
    \/ FetchChunk
    \/ FetchChunkFails
    \/ FetchSleep
    \/ FetchReturn

-----------------------------------------------------------------------------
(* Claims about the Batch Fetcher, checked under SpecFetch.                *)

\* The ids of the chunks whose multiplexed request returned
RequestedOk == UNION {Range(chunk_log[i].ids) :
                        i \in {j \in DOMAIN chunk_log : chunk_log[j].raised = "none"}}

\* The concatenation of the chunks requested so far
RECURSIVE ConcatChunks(_)
ConcatChunks(k) ==
    IF k = 0 THEN <<>> ELSE ConcatChunks(k - 1) \o chunk_log[k].ids

\* C3: within one chunk whose multiplexed request returned, every id whose
\* callback reports success is in the chunk's mapping with its payload and
\* no id whose callback reports an exception is: a per-id failure neither
\* discards nor blocks another id's result.
C3_PerIdFailureIsolated ==
    \A i \in DOMAIN chunk_log :
        LET c == chunk_log[i]
        IN  c.raised = "none" =>
              \A id \in Range(c.ids) :
                 IF answer[id] = "ok"
                 THEN /\ id \in DictKeySet(c.results)
                      /\ DictValue(c.results, id) = Payload(granularity, id)
                 ELSE id \notin DictKeySet(c.results)

\* a chunk in which a failing id precedes a succeeding one
C3_Witness ==
    \E i \in DOMAIN chunk_log :
        LET c == chunk_log[i]
        IN  /\ c.raised = "none"
            /\ \E a, b \in DOMAIN c.ids :
                  /\ a < b
                  /\ answer[c.ids[a]] # "ok"
                  /\ answer[c.ids[b]] = "ok"
                  /\ c.ids[b] \in DictKeySet(result_map)

\* C4: when the multiplexed request of a chunk fails, none of the chunk's
\* ids is in the merged result, the failure does not end the fetch (every
\* later chunk is still requested), and the merged result is the union of
\* the successful ids of the other chunks.
C4_ChunkFailureContained ==
    /\ \A i \in DOMAIN chunk_log :
          chunk_log[i].raised # "none" =>
              Range(chunk_log[i].ids) \cap DictKeySet(result_map) = {}
    /\ batch_pc = "returned" =>
          /\ ConcatChunks(Len(chunk_log)) = input_ids
          /\ DictKeySet(result_map) = {id \in RequestedOk : answer[id] = "ok"}

\* a finished fetch in which a chunk failed between two chunks that each
\* delivered an id
C4_Witness ==
    /\ batch_pc = "returned"
    /\ \E i, j, k \in DOMAIN chunk_log :
          /\ i < j /\ j < k
          /\ chunk_log[j].raised # "none"
          /\ chunk_log[i].results # <<>>
          /\ chunk_log[k].results # <<>>

\* C5: the keys of the mapping returned by the Batch Fetcher are ids of
\* the input list, whatever per-id and whole-chunk failures occur.
C5_NoFabricatedIds == DictKeySet(result_map) \subseteq Range(input_ids)

\* a finished fetch with a per-id failure, a failed chunk and a delivered id
C5_Witness ==
    /\ batch_pc = "returned"
    /\ result_map # <<>>
    /\ \E i \in DOMAIN chunk_log : chunk_log[i].raised # "none"
    /\ \E id \in RequestedOk : answer[id] # "ok"

\* C6: when every multiplexed request returns, the merged mapping of a
\* chunked fetch equals the mapping of a single request over the whole
\* list, for every batch_size; ids that fail individually are missing from
\* both.
C6_ChunkedEqualsUnchunked ==
    (batch_pc = "returned" /\ \A i \in DOMAIN chunk_log : chunk_log[i].raised = "none")
        => result_map = ProcessBatch(input_ids, granularity, "none")

\* a finished fetch in several chunks, the last one shorter, with one id
\* failing and one delivered
C6_Witness ==
    /\ batch_pc = "returned"
    /\ Len(chunk_log) >= 2
    /\ Len(input_ids) % batch_size # 0
    /\ \A i \in DOMAIN chunk_log : chunk_log[i].raised = "none"
    /\ \E id \in Range(input_ids) : answer[id] # "ok"
    /\ result_map # <<>>

\* the least k with k * b >= n
CeilDiv(n, b) == CHOOSE k \in 0..n : k * b >= n /\ \A j \in 0..(k - 1) : j * b < n

\* C24: the i-th chunk requested is the slice of the input that starts
\* after the first (i-1)*batch_size ids and holds the next batch_size of
\* them (fewer when the input ends): chunks are contiguous, in order, of
\* size 1..batch_size; a finished fetch has requested ceil(n/batch_size)
\* chunks that together are the input, every position once; an empty input
\* causes no request.
C24_ChunksPartitionInput ==
    /\ \A i \in DOMAIN chunk_log :
          LET first == (i - 1) * batch_size + 1
              last  == Min(i * batch_size, Len(input_ids))
          IN  /\ chunk_log[i].ids = SubSeq(input_ids, first, last)
              /\ Len(chunk_log[i].ids) >= 1
              /\ Len(chunk_log[i].ids) <= batch_size
    /\ Len(chunk_log) <= CeilDiv(Len(input_ids), batch_size)
    /\ batch_pc = "returned" =>
          /\ Len(chunk_log) = CeilDiv(Len(input_ids), batch_size)
          /\ ConcatChunks(Len(chunk_log)) = input_ids
          /\ SeqSum([i \in DOMAIN chunk_log |-> Len(chunk_log[i].ids)])
                = Len(input_ids)
    /\ input_ids = <<>> => chunk_log = <<>>

\* a finished fetch of three ids in two chunks, the second one shorter
C24_Witness ==
    /\ batch_pc = "returned"
    /\ Len(input_ids) = 3
    /\ batch_size = 2
    /\ Len(chunk_log) = 2
    /\ Len(chunk_log[2].ids) = 1

\* C25: the fetcher sleeps once after every chunk but the last, whether
\* the chunk's request returned or failed: the i-th sleep follows the i-th
\* chunk, a chunk is requested only when every chunk before it was followed
\* by a sleep, and a finished fetch of k >= 1 chunks has slept k-1 times.
C25_SleepBetweenChunks ==
    /\ \A i \in DOMAIN sleeps : sleeps[i] = i - 1
    /\ batch_pc = "sleep" => Len(sleeps) = Len(chunk_log) - 1
    /\ (batch_pc = "loop" /\ chunk_log # <<>>) =>
          Len(sleeps) = IF Len(chunk_log) < CeilDiv(Len(input_ids), batch_size)
                        THEN Len(chunk_log) ELSE Len(chunk_log) - 1
    /\ (batch_pc = "returned" /\ chunk_log # <<>>) =>
          Len(sleeps) = Len(chunk_log) - 1
    /\ chunk_log = <<>> => sleeps = <<>>

\* a finished fetch of three chunks, the first failed and the second
\* returned, with two sleeps
C25_Witness ==
    /\ batch_pc = "returned"
    /\ Len(chunk_log) = 3
    /\ chunk_log[1].raised # "none"
    /\ chunk_log[2].raised = "none"
    /\ sleeps = <<0, 1>>

\* the number of sub-requests sent for id so far
TimesRequested(id) ==
    Cardinality({<<i, j>> \in (DOMAIN chunk_log) \X (1..MaxIds + 1) :
                    j \in DOMAIN chunk_log[i].ids /\ chunk_log[i].ids[j] = id})

\* C28: within one call, no id is sent in more than one sub-request,
\* whatever happened to its sub-request or its chunk; a finished call has
\* sent each input id exactly once and requested no chunk beyond the last.
C28_EachIdRequestedOnce ==
    /\ \A id \in Range(input_ids) : TimesRequested(id) <= 1
    /\ batch_pc = "returned" =>
          /\ \A id \in Range(input_ids) : TimesRequested(id) = 1
          /\ Len(chunk_log) = CeilDiv(Len(input_ids), batch_size)

\* a finished fetch in which a chunk failed as a whole with a quota error,
\* an id of another chunk failed with a rate-limit error and one with a
\* plain error
C28_Witness ==
    /\ batch_pc = "returned"
    /\ \E i \in DOMAIN chunk_log : chunk_log[i].raised = "quota"
    /\ \E id \in RequestedOk : answer[id] = "rate"
    /\ \E id \in RequestedOk : answer[id] = "err"

-----------------------------------------------------------------------------
(* Metadata Interpreter: create_metadata_lookup (src/main.py 132-213).     *)

\* ---- str operations ----

\* s.find(c) + 1: the position of the first c in s, 0 when there is none
RECURSIVE Find(_, _)
Find(s, c) ==
    IF s = <<>> THEN 0
    ELSE IF Head(s) = c THEN 1
    ELSE LET r == Find(Tail(s), c) IN IF r = 0 THEN 0 ELSE r + 1

\* c in s
Contains(s, c) == Find(s, c) # 0

\* s.split(c)[0]
SplitHead(s, c) ==
    IF Contains(s, c) THEN SubSeq(s, 1, Find(s, c) - 1) ELSE s

\* s.split(c, 1)[1], for s that contains c
SplitOnceTail(s, c) == SubSeq(s, Find(s, c) + 1, Len(s))

\* s.startswith(p)
StartsWith(s, p) == Len(s) >= Len(p) /\ SubSeq(s, 1, Len(p)) = p

\* name.lower() of a header name
Lower(name) ==
    CASE name = "Delivered-To" -> "delivered-to"
      [] name = "DELIVERED-TO" -> "delivered-to"
      [] name = "To"           -> "to"
      [] name = "TO"           -> "to"
      [] name = "Date"         -> "date"
      [] name = "DATE"         -> "date"
      [] OTHER                 -> name

\* a truthy str: neither None nor the empty str
Truthy(v) == v # NoneStr /\ v # <<>>

\* d.get(k)
Get(d, k) == IF k \in DictKeySet(d) THEN DictValue(d, k) ELSE NoneStr

\* ---- the header values of the model ----

\* recipient header values
AddrValues == {
    <<"i", "+", "A", "@", "x">>,                       \* i+A@x
    <<"N", "+", "M", " ", "<", "i", "+", "B", "+", "C", "@", "x", ">">>,
                                                       \* N+M <i+B+C@x>
    <<"i", "@", "x">>,                                 \* i@x
    <<"i", "+", "@", "x">>,                            \* i+@x
    <<"u", "+", "V">>,                                 \* u+V  (no domain)
    <<"u">>,                                           \* u    (no domain)
    <<>> }                                             \* empty value

\* Date header values: a well-formed RFC 5322 date-time of the given
\* calendar day, a text that is no date, or the empty value
DateValues == {
    [kind |-> "rfc5322", day |-> 2,  month |-> 1,  year |-> 2025],
    [kind |-> "rfc5322", day |-> 15, month |-> 11, year |-> 2024],
    [kind |-> "garbage", day |-> 0,  month |-> 0,  year |-> 0],
    [kind |-> "empty",   day |-> 0,  month |-> 0,  year |-> 0] }

\* values of the To header
ToValues == {
    <<"i", "+", "A", "@", "x">>,                       \* i+A@x
    <<"u">>,                                           \* u    (no domain)
    <<>> }                                             \* empty value

LabelPrefix == <<"L", "a", "b", "e", "l", "_">>

\* labelIds of an item
LabelIdLists == {
    << <<"I", "N", "B", "O", "X">> >>,
    << <<"I", "N", "B", "O", "X">>, <<"L", "a", "b", "e", "l", "_", "7">> >> }

\* the two spellings of header names the model delivers
NameStyles == {"Title", "UPPER"}

HeaderName(style, lower) ==
    CASE lower = "delivered-to" ->
            IF style = "Title" THEN "Delivered-To" ELSE "DELIVERED-TO"
      [] lower = "to"   -> IF style = "Title" THEN "To" ELSE "TO"
      [] lower = "date" -> IF style = "Title" THEN "Date" ELSE "DATE"

\* zero or one header of the given name
HeaderChoices(style, lower, values) ==
    {<<>>} \cup {<<[name |-> HeaderName(style, lower), value |-> v]>> :
                   v \in values}

\* ---- the code ----

\* email.utils.parseaddr(value)[1]: the address without its display name
ParseAddr(value) ==
    IF Contains(value, "<") /\ Find(value, ">") > Find(value, "<")
    THEN SubSeq(value, Find(value, "<") + 1, Find(value, ">") - 1)
    ELSE value

\* the value of headers_map.get("date") when there is no Date header
AbsentDate == [kind |-> "absent", day |-> 0, month |-> 0, year |-> 0]

\* email.utils.parsedate_to_datetime(raw_date): ok is FALSE when it raises
ParseDateLenient(raw_date) ==
    [ok    |-> TRUE,
     day   |-> raw_date.day,
     month |-> raw_date.month,
     year  |-> raw_date.year]

ParseDate(raw_date) ==
    [ok    |-> raw_date.kind = "rfc5322",
     day   |-> raw_date.day,
     month |-> raw_date.month,
     year  |-> raw_date.year]

Digit(n) == <<"0", "1", "2", "3", "4", "5", "6", "7", "8", "9">>[n + 1]

\* date_object.strftime("%m/%d/%Y")
FormatDate(d) ==
    << Digit(d.month \div 10), Digit(d.month % 10), "/",
       Digit(d.day \div 10), Digit(d.day % 10), "/",
       Digit(d.year \div 1000), Digit((d.year \div 100) % 10),
       Digit((d.year \div 10) % 10), Digit(d.year % 10) >>

\* headers_map = {h.get('name', '').lower(): h.get('value', '') for h in headers}
RECURSIVE HeadersMapFrom(_, _)
HeadersMapFrom(map, headers) ==
    IF headers = <<>> THEN map
    ELSE HeadersMapFrom(DictSet(map, Lower(Head(headers).name), Head(headers).value),
                        Tail(headers))

HeadersMap(headers) == HeadersMapFrom(<<>>, headers)

\* delivered_to = headers_map.get('delivered-to') or headers_map.get('to')
ChooseRecipientToFirst(headers_map) ==
    IF Truthy(Get(headers_map, "to"))
    THEN Get(headers_map, "to")
    ELSE Get(headers_map, "delivered-to")

ChooseRecipient(headers_map) ==
    IF Truthy(Get(headers_map, "delivered-to"))
    THEN Get(headers_map, "delivered-to")
    ELSE Get(headers_map, "to")

\* vendor = local_part.split("+", 1)[1]
VendorOfSecondField(local_part) == SplitHead(SplitOnceTail(local_part, "+"), "+")

VendorOf(local_part) == SplitOnceTail(local_part, "+")

\* if vendor and date is not None
ShouldAddVendorNotNone(vendor, date) == vendor # NoneStr /\ date # NoneStr

ShouldAdd(vendor, date) == Truthy(vendor) /\ date # NoneStr

\* label_id_to_check = [id for id in label_ids if id.startswith("Label_")]
RECURSIVE LabelIdsToCheck(_)
LabelIdsToCheck(label_ids) ==
    IF label_ids = <<>> THEN <<>>
    ELSE (IF StartsWith(Head(label_ids), LabelPrefix)
          THEN <<Head(label_ids)>> ELSE <<>>) \o LabelIdsToCheck(Tail(label_ids))

\* The outcomes of the call get_vendor_from_label_id(label_id_to_check):
\* the name is defined nowhere in helper_functions.py, so the call raises
\* NameError ("raised"); were it defined, it would return ("returned").
LabelCallOutcomes == {"raised", "returned"}

\* lines 160-171: the recipient header chosen, its address, and whether the
\* branch of line 178 (no usable address) is taken
Recipient(data) ==
    LET headers      == data.payload.headers
        delivered_to == IF headers # <<>>
                        THEN ChooseRecipient(HeadersMap(headers)) ELSE NoneStr
        email_addr   == IF Truthy(delivered_to) THEN ParseAddr(delivered_to) ELSE NoneStr
    IN  [delivered_to |-> delivered_to,
         email_addr   |-> email_addr,
         usable       |-> Truthy(email_addr) /\ Contains(email_addr, "@"),
         fallback     |-> Truthy(delivered_to)
                          /\ ~(Truthy(email_addr) /\ Contains(email_addr, "@"))]

\* lines 188-195: the formatted date, None when the header is missing, empty
\* or not a date
DateOf(headers_map) ==
    LET raw_date == IF "date" \in DictKeySet(headers_map)
                    THEN DictValue(headers_map, "date") ELSE AbsentDate
    IN  IF raw_date.kind # "absent" /\ raw_date.kind # "empty"
           /\ ParseDate(raw_date).ok
        THEN FormatDate(ParseDate(raw_date))
        ELSE NoneStr

\* The body of one iteration of the for loop (lines 147-209) on message_data,
\* with label_call the outcome of the label fallback call ("none" when the
\* call is not made). The result holds the locals at the end of the iteration.
Interpret(data, label_call) ==
    LET r          == Recipient(data)
        local_part == IF r.usable THEN SplitHead(r.email_addr, "@") ELSE NoneStr
        vendor     == IF r.usable /\ Contains(local_part, "+")
                      THEN VendorOf(local_part) ELSE NoneStr
        \* line 182: continue, reached only when the call at 181 returns
        continued  == r.fallback /\ label_call = "returned"
        date       == IF data.payload.headers # <<>> /\ ~continued
                      THEN DateOf(HeadersMap(data.payload.headers)) ELSE NoneStr
    IN  [message_id   |-> 0,
         delivered_to |-> r.delivered_to,
         email_addr   |-> r.email_addr,
         vendor       |-> vendor,
         date         |-> date,
         label_call   |-> label_call,
         label_ids    |-> IF r.fallback THEN LabelIdsToCheck(data.labelIds) ELSE <<>>,
         added        |-> ~continued /\ ShouldAdd(vendor, date)]

\* lines 156-157: vendor = None, date = None at the top of an iteration
NoLocals ==
    [message_id   |-> 0,
     delivered_to |-> NoneStr,
     email_addr   |-> NoneStr,
     vendor       |-> NoneStr,
     date         |-> NoneStr,
     label_call   |-> "none",
     label_ids    |-> <<>>,
     added        |-> FALSE]

LookupInit ==
    /\ lookup_pc = "loop"
    /\ meta_total \in 0..MaxItems
    /\ meta_ids = [i \in 1..meta_total |-> i]
    /\ meta_seen = 0
    /\ message_data = None
    /\ metadata_lookup = <<>>
    /\ item_trace = NoLocals

\* The body of one iteration of the for loop over
\* message_metadata_map.items() (lines 147-209); the item visited is any
\* item the remote store can deliver; its id is the next key of the map.
InterpretItem ==
    /\ lookup_pc = "loop"
    /\ meta_seen < meta_total
    /\ \E style \in NameStyles, labels \in LabelIdLists :
       \E dt \in HeaderChoices(style, "delivered-to", AddrValues),
          to \in HeaderChoices(style, "to", ToValues),
          dh \in HeaderChoices(style, "date", DateValues) :
       \E call \in IF Recipient([payload |-> [headers |-> to \o dh \o dt],
                                  labelIds |-> labels]).fallback
                    THEN LabelCallOutcomes ELSE {"none"} :
          LET message_id == meta_ids[meta_seen + 1]
              data   == [payload |-> [headers |-> to \o dh \o dt], labelIds |-> labels]
              locals == Interpret(data, call)
          IN  /\ message_data' = data
              /\ item_trace' = [locals EXCEPT !.message_id = message_id]
              /\ metadata_lookup' =
                    IF locals.added
                    THEN DictSet(metadata_lookup, message_id,
                                 [vendor |-> locals.vendor, date |-> locals.date])
                    ELSE metadata_lookup
              /\ meta_seen' = meta_seen + 1
    /\ lookup_pc' = "item_done"
    /\ UNCHANGED <<mainVars, meta_total, meta_ids, listVars, fetchVars,
                   extractVars, archVars>>

\* line 146: the for statement moves on, the locals of the finished
\* iteration are gone
LookupAdvance ==
    /\ lookup_pc = "item_done"
    /\ lookup_pc' = "loop"
    /\ message_data' = None
    /\ item_trace' = NoLocals
    /\ UNCHANGED <<mainVars, meta_total, meta_ids, meta_seen, metadata_lookup, listVars, fetchVars,
                   extractVars, archVars>>

\* lines 211-213: the loop is over
LookupReturn ==
    /\ lookup_pc = "loop"
    /\ meta_seen = meta_total
    /\ lookup_pc' = "returned"
    /\ UNCHANGED <<mainVars, meta_total, meta_ids, meta_seen, message_data,
                   metadata_lookup,
                   item_trace, listVars, fetchVars,
                   extractVars, archVars>>

LookupNext ==
    \/ InterpretItem
    \/ LookupAdvance
    \/ LookupReturn

-----------------------------------------------------------------------------
(* Claims about the Metadata Interpreter, checked under SpecLookup.        *)

\* The values of the headers of the current item whose name is `lower`,
\* compared case-insensitively
HeaderValues(lower) ==
    {h.value : h \in {x \in Range(message_data.payload.headers) : Lower(x.name) = lower}}

HasHeader(lower) ==
    \E h \in Range(message_data.payload.headers) : Lower(h.name) = lower

TheHeader(lower) == CHOOSE v \in HeaderValues(lower) : TRUE

\* The positions of character c in s, and the least of a set of positions
PositionsOf(s, c) == {i \in DOMAIN s : s[i] = c}
Least(S) == CHOOSE m \in S : \A n \in S : m <= n

\* Everything before the first c / after the first c of s
BeforeFirst(s, c) == SubSeq(s, 1, Least(PositionsOf(s, c)) - 1)
AfterFirst(s, c)  == SubSeq(s, Least(PositionsOf(s, c)) + 1, Len(s))

\* The vendor the interpreter derives from an item whose only header is a
\* recipient header of the given value
VendorFromValue(value) ==
    Interpret([payload  |-> [headers |-> <<[name |-> "To", value |-> value]>>],
               labelIds |-> <<>>], "raised").vendor

CurrentEntryExists == item_trace.message_id \in DictKeySet(metadata_lookup)

\* C7: every entry of the lookup has a non-empty vendor and a derived
\* date; an item lacking either gets no entry, and the loop goes on to the
\* remaining items.
C7_EntriesHaveVendorAndDate ==
    /\ \A i \in DOMAIN metadata_lookup :
          LET entry == metadata_lookup[i][2]
          IN  /\ entry.vendor # NoneStr
              /\ entry.vendor # <<>>
              /\ entry.date # NoneStr
              /\ Len(entry.date) = 10
    /\ lookup_pc = "item_done" =>
          (CurrentEntryExists <=>
              (item_trace.vendor # NoneStr /\ item_trace.vendor # <<>>
               /\ item_trace.date # NoneStr))
    /\ DictKeySet(metadata_lookup) \subseteq 1..meta_seen
    /\ lookup_pc = "returned" => meta_seen = meta_total

\* a finished run in which an item without vendor or date was skipped and
\* a later item got its entry
C7_Witness ==
    /\ lookup_pc = "returned"
    /\ 1 \notin DictKeySet(metadata_lookup)
    /\ 2 \in DictKeySet(metadata_lookup)

\* C8: when the local part of the recipient address contains '+', the
\* vendor is everything after the first '+' of the local part (a lone To
\* header i+A@x gives vendor A); when the address has no '+' and the item
\* carries no label with the reserved prefix, the item gets no entry.
C8_VendorAfterFirstPlus ==
    lookup_pc = "item_done" =>
        LET addr == item_trace.email_addr
        IN  /\ (addr # NoneStr /\ PositionsOf(addr, "@") # {}
                /\ PositionsOf(BeforeFirst(addr, "@"), "+") # {}) =>
                   /\ item_trace.vendor = AfterFirst(BeforeFirst(addr, "@"), "+")
                   /\ CurrentEntryExists =>
                        DictValue(metadata_lookup, item_trace.message_id).vendor
                            = AfterFirst(BeforeFirst(addr, "@"), "+")
            /\ (~HasHeader("delivered-to")
                /\ HeaderValues("to") = {<<"i", "+", "A", "@", "x">>}) =>
                   /\ item_trace.vendor = <<"A">>
                   /\ item_trace.date # NoneStr => CurrentEntryExists
            /\ ((addr = NoneStr \/ PositionsOf(addr, "+") = {})
                /\ LabelIdsToCheck(message_data.labelIds) = <<>>) =>
                   ~CurrentEntryExists

\* an item with a display name and two '+' in the local part, entered in
\* the lookup
C8_Witness ==
    /\ lookup_pc = "item_done"
    /\ item_trace.email_addr = <<"i", "+", "B", "+", "C", "@", "x">>
    /\ CurrentEntryExists
    /\ DictValue(metadata_lookup, item_trace.message_id).vendor = <<"B", "+", "C">>

\* C9 as stated: the vendor is that of the delivered-to header whenever
\* that header is present; the to header is used only when delivered-to is
\* absent.
C9_DeliveredToWheneverPresent ==
    (lookup_pc = "item_done" /\ HasHeader("delivered-to")) =>
        item_trace.vendor = VendorFromValue(TheHeader("delivered-to"))

\* C9 as amended: the vendor is that of the delivered-to header whenever
\* that header is present with a non-empty value (names compared without
\* regard to case); the to header is used when delivered-to is absent or
\* empty.
C9_DeliveredToWhenNonEmpty ==
    lookup_pc = "item_done" =>
        IF HasHeader("delivered-to") /\ TheHeader("delivered-to") # <<>>
        THEN item_trace.vendor = VendorFromValue(TheHeader("delivered-to"))
        ELSE IF HasHeader("to")
        THEN item_trace.vendor = VendorFromValue(TheHeader("to"))
        ELSE item_trace.vendor = NoneStr

\* an item carrying both headers, in upper case, with different
\* sub-addresses: the vendor is that of delivered-to
C9_Witness ==
    /\ lookup_pc = "item_done"
    /\ \E h \in Range(message_data.payload.headers) : h.name = "DELIVERED-TO"
    /\ HeaderValues("to") = {<<"i", "+", "A", "@", "x">>}
    /\ item_trace.vendor = <<"B", "+", "C">>
    /\ CurrentEntryExists

\* C10: an item whose recipient header yields no usable address and no
\* '+', which carries a label with the reserved prefix and a well-formed
\* date, gets a lookup entry (with the label-derived vendor).
C10_LabelFallbackGivesEntry ==
    (/\ lookup_pc = "item_done"
     /\ item_trace.delivered_to = <<"u">>
     /\ item_trace.label_ids # <<>>
     /\ HasHeader("date")
     /\ TheHeader("date").kind = "rfc5322") => CurrentEntryExists

\* The Date header of the current item is missing, empty or no date
BadDate ==
    \/ ~HasHeader("date")
    \/ TheHeader("date").kind \in {"garbage", "empty"}

\* C11: an item whose Date header is missing, empty or fails to parse has
\* no date and gets no lookup entry; the entries of the items visited
\* before it stay, the failure does not end the loop, and the function
\* returns only after every item of the map was visited.
C11_BadDateSkipsItemOnly ==
    /\ (lookup_pc = "item_done" /\ BadDate) =>
          /\ item_trace.date = NoneStr
          /\ ~CurrentEntryExists
          /\ DictKeySet(metadata_lookup) \subseteq 1..(meta_seen - 1)
    /\ (lookup_pc = "item_done" /\ ~BadDate /\ item_trace.label_call = "none"
        /\ Truthy(item_trace.vendor)) => CurrentEntryExists
    /\ lookup_pc \in {"loop", "item_done"} => meta_seen <= meta_total
    /\ lookup_pc = "returned" => meta_seen = meta_total

\* the second item has a vendor but a Date header that is no date: it is
\* skipped, the entry of the first item is kept and a third item is still
\* to be visited
C11_Witness ==
    /\ lookup_pc = "item_done"
    /\ meta_seen = 2
    /\ meta_total = 3
    /\ HasHeader("date")
    /\ TheHeader("date").kind = "garbage"
    /\ item_trace.vendor = <<"A">>
    /\ ~CurrentEntryExists
    /\ DictKeySet(metadata_lookup) = {1}

-----------------------------------------------------------------------------
(* Document Extractor: extract_attachments_from_payload                    *)
(* (src/helper_functions.py 73-108) and get_attachments_messages           *)
(* (src/main.py 302-339).                                                  *)

\* The letters of the model's texts that have an upper-case form
Letters == << <<"C", "c">>, <<"D", "d">>, <<"F", "f">>, <<"I", "i">>,
              <<"P", "p">>, <<"Q", "q">>, <<"R", "r">>, <<"S", "s">>,
              <<"T", "t">>, <<"V", "v">>, <<"X", "x">> >>

\* c.lower() of one character
LowerChar(c) ==
    IF \E i \in DOMAIN Letters : Letters[i][1] = c
    THEN Letters[CHOOSE i \in DOMAIN Letters : Letters[i][1] = c][2]
    ELSE c

\* s.lower()
StrLower(s) == [i \in DOMAIN s |-> LowerChar(s[i])]

\* s.endswith(suffix)
EndsWith(s, suffix) ==
    Len(s) >= Len(suffix)
    /\ SubSeq(s, Len(s) - Len(suffix) + 1, Len(s)) = suffix

DotCsv == <<".", "c", "s", "v">>
DotPdf == <<".", "p", "d", "f">>

\* body.get('attachmentId') of a part that has no attachmentId
NoAttachmentId == 0

\* if attachment_id and filename: if filename_lower.endswith(('.csv', '.pdf'))
IsAttachmentCaseSensitive(filename, attachment_id) ==
    /\ attachment_id # NoAttachmentId
    /\ filename # <<>>
    /\ (EndsWith(filename, DotCsv) \/ EndsWith(filename, DotPdf))

IsAttachment(filename, attachment_id) ==
    /\ attachment_id # NoAttachmentId
    /\ filename # <<>>
    /\ (EndsWith(StrLower(filename), DotCsv)
        \/ EndsWith(StrLower(filename), DotPdf))

\* extract_attachments_from_payload(payload): a list of zero or one record
ExtractAttachmentsFromPayload(payload) ==
    LET filename      == payload.filename
        attachment_id == payload.body.attachmentId
    IN  IF IsAttachment(filename, attachment_id)
        THEN << [attachmentId |-> attachment_id, filename |-> filename] >>
        ELSE <<>>

\* ---- the content-part trees of the model ----

\* filenames of parts
Filenames == {
    <<"r", ".", "t", "x", "t">>,        \* r.txt
    <<"r", ".", "P", "D", "F">>,        \* r.PDF
    <<"r", ".", "c", "s", "v">>,        \* r.csv
    <<"r", "p", "d", "f">>,             \* rpdf   (no extension)
    <<>> }                              \* no filename

\* The attachmentId the remote store gives to slot k of item message_id:
\* unique within a run
AttId(message_id, k) == message_id * 10 + k

Part(filename, attachment_id, parts) ==
    [filename |-> filename,
     body     |-> [attachmentId |-> attachment_id],
     parts    |-> parts]

\* a part without children
Leaf(message_id, k, filename, has_id) ==
    Part(filename, IF has_id THEN AttId(message_id, k) ELSE NoAttachmentId, <<>>)

\* a multipart container
Container(parts) == Part(<<>>, NoAttachmentId, parts)

CsvLeaf(message_id, k) == Leaf(message_id, k, <<"r", ".", "c", "s", "v">>, TRUE)

\* The payloads the remote store can deliver for item message_id: no parts,
\* parts at depth 1, at depth 2 and at depth 3 below the root
Payloads(message_id) ==
    {Container(<<>>)}
    \cup UNION {
        LET leaf == Leaf(message_id, 1, f, h)
        IN  { Container(<<leaf>>),
              Container(<<leaf, CsvLeaf(message_id, 2)>>),
              Container(<<Container(<<leaf>>)>>),
              Container(<<Container(<<leaf>>), CsvLeaf(message_id, 2)>>),
              Container(<<Container(<<Container(<<leaf>>)>>)>>),
              Container(<<CsvLeaf(message_id, 2),
                          Container(<<Container(<<leaf>>)>>)>>) }
        : f \in Filenames, h \in BOOLEAN }

\* ---- the code ----

RECURSIVE Flatten(_)
Flatten(seqs) == IF seqs = <<>> THEN <<>> ELSE Head(seqs) \o Flatten(Tail(seqs))

\* lines 324-330: the parts handed to extract_attachments_from_payload, in
\* call order: each part of the payload, followed by its nested parts
PartsVisited(payload) ==
    Flatten([i \in DOMAIN payload.parts |->
                <<payload.parts[i]>> \o payload.parts[i].parts])

\* the calls of one iteration, argument and result
CallsOf(payload) ==
    [i \in DOMAIN PartsVisited(payload) |->
        [part   |-> PartsVisited(payload)[i],
         result |-> ExtractAttachmentsFromPayload(PartsVisited(payload)[i])]]

\* attachments.extend(...) over the calls
AttachmentsOf(payload) ==
    Flatten([i \in DOMAIN CallsOf(payload) |-> CallsOf(payload)[i].result])

\* lines 332-335: attachments_messages[attachment['attachmentId']] =
\* [message_id, attachment['filename']]
StoreAttachmentsFirst(map, message_id, atts) ==
    [i \in DOMAIN atts |->
        <<atts[i].attachmentId, <<message_id, atts[i].filename>> >>] \o map

RECURSIVE StoreAttachments(_, _, _)
StoreAttachments(map, message_id, atts) ==
    IF atts = <<>> THEN map
    ELSE StoreAttachments(
            DictSet(map, Head(atts).attachmentId, <<message_id, Head(atts).filename>>),
            message_id, Tail(atts))

\* every part of a tree, at any depth below the root
RECURSIVE AllParts(_)
AllParts(payload) ==
    Flatten([i \in DOMAIN payload.parts |->
                <<payload.parts[i]>> \o AllParts(payload.parts[i])])

\* the number of parts of a tree that extract_attachments_from_payload accepts
AcceptedIn(payload) ==
    Len(Flatten([i \in DOMAIN AllParts(payload) |->
                    ExtractAttachmentsFromPayload(AllParts(payload)[i])]))

NoPayload == Container(<<>>)

\* ---- the input of the stage ----

\* entries of a metadata lookup
EntryA ==
    [vendor |-> <<"A">>,
     date   |-> FormatDate([day |-> 2, month |-> 1, year |-> 2025])]

EntryBC ==
    [vendor |-> <<"B", "+", "C">>,
     date   |-> FormatDate([day |-> 15, month |-> 11, year |-> 2024])]

LookupEntries == {EntryA, EntryBC}

\* the entry of item id in the runs of the whole stage
EntryOf(id) == IF id % 2 = 1 THEN EntryA ELSE EntryBC

\* strictly increasing id sequences over 1..n
IncreasingSeqs(n) ==
    UNION {{s \in [1..k -> 1..n] : \A i \in 1..(k - 1) : s[i] < s[i + 1]}
             : k \in 0..n}

\* the subsequences of s
SubSeqsOf(s) ==
    {[i \in DOMAIN t |-> s[t[i]]] : t \in IncreasingSeqs(Len(s))}

\* The lookups create_metadata_lookup can return for a map of n items
LookupsUpTo(n) ==
    UNION {{[i \in DOMAIN keys |-> <<keys[i], e[i]>>] :
              e \in [DOMAIN keys -> LookupEntries]}
             : keys \in IncreasingSeqs(n)}

\* those in which the entry of an item is EntryOf(item)
LookupsByKey ==
    {[i \in DOMAIN keys |-> <<keys[i], EntryOf(keys[i])>>] :
        keys \in IncreasingSeqs(MaxFull)}

\* create_metadata_lookup has returned one of the given lookups
LookupReturned(lookups) ==
    /\ lookup_pc = "returned"
    /\ metadata_lookup \in lookups
    /\ meta_total = MaxFull
    /\ meta_ids = [i \in 1..MaxFull |-> i]
    /\ meta_seen = MaxFull
    /\ message_data = None
    /\ item_trace = NoLocals

\* get_attachments_messages(message_full_payload_map) is entered (line 308);
\* the keys of the map are the ids of the lookup whose full-content fetch
\* succeeded, in the lookup's order
ExtractInit ==
    /\ ext_pc = "loop"
    /\ full_ids \in SubSeqsOf(DictKeys(metadata_lookup))
    /\ ext_seen = 0
    /\ ext_payload = NoPayload
    /\ attachments = <<>>
    /\ ext_calls = <<>>
    /\ attachments_messages = <<>>
    /\ accepted_seen = 0

ExtractIdle ==
    /\ ext_pc = "idle"
    /\ full_ids = <<>>
    /\ ext_seen = 0
    /\ ext_payload = NoPayload
    /\ attachments = <<>>
    /\ ext_calls = <<>>
    /\ attachments_messages = <<>>
    /\ accepted_seen = 0

\* One iteration of the for loop over message_full_payload_map.items()
\* (lines 310-337); the payload is any payload the remote store can deliver
\* for the item.
ExtractItem ==
    /\ ext_pc = "loop"
    /\ ext_seen < Len(full_ids)
    /\ \E payload \in Payloads(full_ids[ext_seen + 1]) :
          LET message_id == full_ids[ext_seen + 1]
              parts      == payload.parts
          IN  /\ ext_payload' = payload
              /\ accepted_seen' = accepted_seen + AcceptedIn(payload)
              /\ IF parts = <<>>
                 THEN \* lines 320-322: continue
                      /\ ext_calls' = <<>>
                      /\ attachments' = <<>>
                      /\ UNCHANGED attachments_messages
                 ELSE /\ ext_calls' = CallsOf(payload)
                      /\ attachments' = AttachmentsOf(payload)
                      /\ attachments_messages' =
                            StoreAttachments(attachments_messages, message_id,
                                             AttachmentsOf(payload))
    /\ ext_seen' = ext_seen + 1
    /\ ext_pc' = "item_done"
    /\ UNCHANGED <<mainVars, full_ids, listVars, fetchVars, lookupVars, archVars>>

\* line 310: the for statement moves on, the locals of the finished
\* iteration are gone
ExtractAdvance ==
    /\ ext_pc = "item_done"
    /\ ext_pc' = "loop"
    /\ ext_payload' = NoPayload
    /\ attachments' = <<>>
    /\ ext_calls' = <<>>
    /\ UNCHANGED <<mainVars, full_ids, ext_seen, attachments_messages, accepted_seen,
                   listVars, fetchVars, lookupVars, archVars>>

\* line 339: the loop is over
ExtractReturn ==
    /\ ext_pc = "loop"
    /\ ext_seen = Len(full_ids)
    /\ ext_pc' = "returned"
    /\ UNCHANGED <<mainVars, full_ids, ext_seen, ext_payload, attachments, ext_calls,
                   attachments_messages, accepted_seen,
                   listVars, fetchVars, lookupVars, archVars>>

-----------------------------------------------------------------------------
(* Placeholders for the other stages (idle in SpecList).                   *)

FetchIdle ==
    /\ granularity = "metadata"
    /\ input_ids = <<>>
    /\ batch_size = 1
    /\ answer = <<>>
    /\ batch_pc = "idle"
    /\ batch_num = 0
    /\ result_map = <<>>
    /\ chunk_log = <<>>
    /\ sleeps = <<>>

LookupIdle ==
    /\ lookup_pc = "idle"
    /\ meta_total = 0
    /\ meta_ids = <<>>
    /\ meta_seen = 0
    /\ message_data = None
    /\ metadata_lookup = <<>>
    /\ item_trace = NoLocals

-----------------------------------------------------------------------------
(* Claims about the Document Extractor, checked under SpecArchive.         *)

\* the characters of s after its last '.', for s that contains one
Extension(s) ==
    LET last == CHOOSE i \in PositionsOf(s, ".") :
                    \A j \in PositionsOf(s, ".") : j <= i
    IN  SubSeq(s, last + 1, Len(s))

\* a and b are the same text up to the case of the letters
SameIgnoringCase(a, b) ==
    /\ Len(a) = Len(b)
    /\ \A i \in DOMAIN a :
          \/ a[i] = b[i]
          \/ \E k \in DOMAIN Letters : {a[i], b[i]} = {Letters[k][1], Letters[k][2]}

\* a part qualifies: non-empty filename, a content identifier, and an
\* extension that is csv or pdf up to case
Qualifies(part) ==
    /\ part.filename # <<>>
    /\ part.body.attachmentId # NoAttachmentId
    /\ PositionsOf(part.filename, ".") # {}
    /\ \/ SameIgnoringCase(Extension(part.filename), <<"c", "s", "v">>)
       \/ SameIgnoringCase(Extension(part.filename), <<"p", "d", "f">>)

\* C12: extract_attachments_from_payload returns one record, carrying the
\* part's attachmentId and filename, exactly when the part qualifies, and
\* the empty list otherwise: r.txt is skipped, r.PDF and r.csv with a
\* content identifier are accepted.
C12_ExtractAcceptsIffQualifies ==
    \A i \in DOMAIN ext_calls :
        LET part   == ext_calls[i].part
            result == ext_calls[i].result
        IN  /\ Qualifies(part) =>
                  result = << [attachmentId |-> part.body.attachmentId,
                               filename     |-> part.filename] >>
            /\ ~Qualifies(part) => result = <<>>
            /\ part.filename = <<"r", ".", "t", "x", "t">> => result = <<>>
            /\ (part.filename \in {<<"r", ".", "P", "D", "F">>,
                                    <<"r", ".", "c", "s", "v">>}
                /\ part.body.attachmentId # NoAttachmentId) => Len(result) = 1

\* one item with a part r.PDF and a part r.csv, both accepted
C12_Witness ==
    /\ ext_pc = "item_done"
    /\ Len(ext_calls) = 2
    /\ ext_calls[1].part.filename = <<"r", ".", "P", "D", "F">>
    /\ Len(ext_calls[1].result) = 1
    /\ ext_calls[2].part.filename = <<"r", ".", "c", "s", "v">>
    /\ Len(ext_calls[2].result) = 1

\* C13: every qualifying part of the current item's tree, at any depth
\* below the root, has an attachment record.
C13_AllLevelsTraversed ==
    ext_pc = "item_done" =>
        \A i \in DOMAIN AllParts(ext_payload) :
            LET part == AllParts(ext_payload)[i]
            IN  Qualifies(part) =>
                    /\ \E j \in DOMAIN attachments :
                          attachments[j].attachmentId = part.body.attachmentId
                    /\ part.body.attachmentId \in DictKeySet(attachments_messages)

-----------------------------------------------------------------------------
(* Key Deriver: create_filename (src/helper_functions.py 44-71).           *)

\* s.replace(a, b) for one-character a and b
ReplaceFirstOnly(s, a, b) ==
    [i \in DOMAIN s |-> IF s[i] = a /\ Find(s, a) = i THEN b ELSE s[i]]

Replace(s, a, b) == [i \in DOMAIN s |-> IF s[i] = a THEN b ELSE s[i]]

\* str(n) of a natural number
RECURSIVE IntStr(_)
IntStr(n) == IF n < 10 THEN <<Digit(n)>> ELSE IntStr(n \div 10) \o <<Digit(n % 10)>>

HexDigits == <<"0", "1", "2", "3", "4", "5", "6", "7", "8", "9",
               "a", "b", "c", "d", "e", "f">>

\* the characters of f"{message_id}_{attachment_id}" and their codes
HashAlphabet == <<"0", "1", "2", "3", "4", "5", "6", "7", "8", "9", "_">>

CharCode(c) == CHOOSE i \in DOMAIN HashAlphabet : HashAlphabet[i] = c

\* hashlib.sha256(text.encode("utf-8")).hexdigest()[:4]: sixteen bits that
\* are a fixed function of the text. The digest itself is abstracted by a
\* polynomial checksum of the characters.
RECURSIVE Checksum(_, _)
Checksum(text, acc) ==
    IF text = <<>> THEN acc
    ELSE Checksum(Tail(text), (acc * 31 + CharCode(Head(text))) % 65536)

Sha4(text) ==
    LET n == Checksum(text, 7)
    IN  << HexDigits[(n \div 4096) + 1], HexDigits[((n \div 256) % 16) + 1],
           HexDigits[((n \div 16) % 16) + 1], HexDigits[(n % 16) + 1] >>

\* filename[-3:] and filename[:-3]
Last3(s) == SubSeq(s, IF Len(s) > 3 THEN Len(s) - 2 ELSE 1, Len(s))
ButLast3(s) == SubSeq(s, 1, Len(s) - 3)

UnknownPrefix == <<"u", "n", "k", "n", "o", "w", "n", "_">>
UnboundLocalText ==
    << "l", "o", "c", "a", "l", " ", "v", "a", "r", "i", "a", "b",
       "l", "e", " ", "'", "f", "i", "l", "e", "_", "t", "y", "p",
       "e", "'", " ", "r", "e", "f", "e", "r", "e", "n", "c", "e",
       "d", " ", "b", "e", "f", "o", "r", "e", " ", "a", "s", "s",
       "i", "g", "n", "m", "e", "n", "t" >>

\* lines 63-68: file_type, None when the else branch leaves it unbound
FileType(filename) ==
    IF Last3(filename) = <<"p", "d", "f">> THEN <<"p", "d", "f">>
    ELSE IF Last3(filename) = <<"c", "s", "v">> THEN <<"c", "s", "v">>
    ELSE NoneStr

\* line 70: f"{vendor}_{date}_{filename[:-3]}_{hash}.{file_type}"
S3Key(vendor, date, filename, hash, file_type) ==
    vendor \o <<"_">> \o date \o <<"_">> \o ButLast3(filename) \o <<"_">>
        \o hash \o <<".">> \o file_type

\* create_filename(attachment_id, message_id, filename, metadata_lookup):
\* raised is TRUE when the call raises (file_type is unbound at line 70
\* when the last three characters are neither pdf nor csv)
CreateFilenameCountsEntries(attachment_id, message_id, filename, lookup) ==
    IF message_id \notin DictKeySet(lookup)
    THEN [raised |-> FALSE, key |-> UnknownPrefix \o filename, error |-> <<>>]
    ELSE
        LET vendor == DictValue(lookup, message_id).vendor
            date   == Replace(DictValue(lookup, message_id).date, "/", "-")
            hash   == Sha4(IntStr(Len(lookup)) \o <<"_">> \o IntStr(attachment_id))
        IN  IF FileType(filename) # NoneStr
            THEN [raised |-> FALSE,
                  key    |-> S3Key(vendor, date, filename, hash, FileType(filename)),
                  error  |-> <<>>]
            ELSE [raised |-> TRUE, key |-> <<>>, error |-> UnboundLocalText]

CreateFilename(attachment_id, message_id, filename, lookup) ==
    IF message_id \notin DictKeySet(lookup)
    THEN [raised |-> FALSE, key |-> UnknownPrefix \o filename, error |-> <<>>]
    ELSE
        LET vendor == DictValue(lookup, message_id).vendor
            date   == Replace(DictValue(lookup, message_id).date, "/", "-")
            hash   == Sha4(IntStr(message_id) \o <<"_">> \o IntStr(attachment_id))
        IN  IF FileType(filename) # NoneStr
            THEN [raised |-> FALSE,
                  key    |-> S3Key(vendor, date, filename, hash, FileType(filename)),
                  error  |-> <<>>]
            ELSE [raised |-> TRUE, key |-> <<>>, error |-> UnboundLocalText]

-----------------------------------------------------------------------------
(* Archival Worker: fetch_and_upload_attachments (src/main.py 343-433).    *)

\* sub in s
ContainsText(s, sub) ==
    \E i \in 1..(Len(s) - Len(sub) + 1) : SubSeq(s, i, i + Len(sub) - 1) = sub

\* if "quota" in str(e).lower() or "rate" in str(e).lower()
IsRateLimitQuotaOnly(text) ==
    ContainsText(StrLower(text), <<"q", "u", "o", "t", "a">>)

IsRateLimit(text) ==
    \/ ContainsText(StrLower(text), <<"q", "u", "o", "t", "a">>)
    \/ ContainsText(StrLower(text), <<"r", "a", "t", "e">>)

\* ---- the remote message store ----

\* str(e) of the errors of the model
ServerErrorText == <<"S", "e", "r", "v", "e", "r", " ", "e", "r", "r", "o", "r">>
RateLimitText   == <<"R", "a", "t", "e", " ", "l", "i", "m", "i", "t", " ", "e", "x", "c", "e", "e", "d", "e", "d">>
PaddingText     == <<"I", "n", "c", "o", "r", "r", "e", "c", "t", " ", "p", "a", "d", "d", "i", "n", "g">>

\* The outcomes of service.users().messages().attachments().get(...).execute():
\* it returns the attachment, returns data that is no base64 text, or raises
FetchOutcomes == {"ok", "bad_data", "error", "rate"}

\* attachment['data'] as base64 digits (values 0..63), for a fetch that
\* returns
RemoteData(attachment_id, fetch) ==
    IF fetch = "ok" THEN <<attachment_id % 64, 16, 32, 1>>
    ELSE <<attachment_id % 64, 16>>

\* base64.urlsafe_b64decode(data): ok is FALSE when it raises
RECURSIVE DecodeGroups(_)
DecodeGroups(digits) ==
    IF digits = <<>> THEN <<>>
    ELSE LET n == ((digits[1] * 64 + digits[2]) * 64 + digits[3]) * 64 + digits[4]
         IN  <<n \div 65536, (n \div 256) % 256, n % 256>>
             \o DecodeGroups(SubSeq(digits, 5, Len(digits)))

B64Decode(digits) ==
    IF Len(digits) % 4 = 0
    THEN [ok |-> TRUE, bytes |-> DecodeGroups(digits)]
    ELSE [ok |-> FALSE, bytes |-> <<>>]

\* ---- the code ----

\* lines 391-397: the outcome of an attempt that reached the end of the try
\* block; success is the constant True of line 389
SuccessOutcome(filename, message_id, s3_key, file_data) ==
    [success    |-> TRUE,
     filename   |-> filename,
     message_id |-> message_id,
     s3_key     |-> s3_key,
     size       |-> Len(file_data)]

\* lines 413-418: the outcome of an attempt that raised e
FailureOutcomeWithoutDetail(filename, message_id, e) ==
    [success    |-> FALSE,
     filename   |-> filename,
     message_id |-> message_id,
     error      |-> <<>>]

FailureOutcome(filename, message_id, e) ==
    [success    |-> FALSE,
     filename   |-> filename,
     message_id |-> message_id,
     error      |-> e]

\* The try block of one iteration (lines 371-397) for the given outcome of
\* the remote fetch: the exception raised (<<>> when none), and the locals
Attempt(attachment_id, message_id, filename, lookup, fetch) ==
    LET decoded == B64Decode(RemoteData(attachment_id, fetch))
        named   == CreateFilename(attachment_id, message_id, filename, lookup)
        raised  == IF fetch = "error" THEN ServerErrorText
                   ELSE IF fetch = "rate" THEN RateLimitText
                   ELSE IF ~decoded.ok THEN PaddingText
                   ELSE IF named.raised THEN named.error
                   ELSE <<>>
    IN  [attachment_id |-> attachment_id,
         message_id    |-> message_id,
         filename      |-> filename,
         fetched       |-> fetch,
         raised        |-> raised,
         file_data     |-> IF fetch \in {"ok", "bad_data"} /\ decoded.ok
                           THEN decoded.bytes ELSE <<>>,
         s3_key        |-> IF raised = <<>> THEN named.key ELSE NoneStr]

\* the locals before the first attempt
NoArchLocals ==
    [attachment_id |-> NoAttachmentId,
     message_id    |-> 0,
     filename      |-> <<>>,
     fetched       |-> "none",
     raised        |-> <<>>,
     file_data     |-> <<>>,
     s3_key        |-> NoneStr]

ArchIdle ==
    /\ arch_pc = "idle"
    /\ arch_run = 0
    /\ arch_i = 0
    /\ upload_results = <<>>
    /\ arch_sleeps = <<>>
    /\ arch_trace = NoArchLocals
    /\ key_log = {}
    /\ bucket = <<>>
    /\ labelled = {}

\* lines 357-360: fetch_and_upload_attachments is called with the
\* extractor's result and the lookup
ArchiveStart ==
    /\ ext_pc = "returned"
    /\ arch_pc = "idle"
    /\ arch_pc' = "loop"
    /\ arch_run' = 1
    /\ arch_i' = 0
    /\ upload_results' = <<>>
    /\ UNCHANGED <<mainVars, arch_sleeps, arch_trace, key_log, bucket, labelled,
                   listVars, fetchVars, lookupVars, extractVars>>

\* lines 357-360 again: the worker is called once more with the same
\* attachment records and the same lookup
ArchiveAgain ==
    /\ arch_pc = "returned"
    /\ arch_run < MaxRuns
    /\ arch_pc' = "loop"
    /\ arch_run' = arch_run + 1
    /\ arch_i' = 0
    /\ upload_results' = <<>>
    /\ arch_sleeps' = <<>>
    /\ arch_trace' = NoArchLocals
    /\ UNCHANGED <<mainVars, key_log, bucket, labelled,
                   listVars, fetchVars, lookupVars, extractVars>>

\* the attempt of the current iteration for a given outcome of the fetch
CurrentAttempt(fetch) ==
    LET item == attachments_messages[arch_i + 1]
    IN  Attempt(item[1], item[2][1], item[2][2], metadata_lookup, fetch)

\* One iteration whose try block runs to its end (lines 362-409). The upload
\* of line 387 and the labelling of line 402 are comments in the source:
\* neither the object store nor the remote store is written.
ArchiveSucceeds ==
    /\ arch_pc = "loop"
    /\ arch_i < Len(attachments_messages)
    /\ \E fetch \in FetchOutcomes :
          LET a == CurrentAttempt(fetch)
          IN  /\ a.raised = <<>>
              /\ arch_trace' = a
              /\ upload_results' =
                    DictSet(upload_results, a.attachment_id,
                            SuccessOutcome(a.filename, a.message_id, a.s3_key,
                                           a.file_data))
              /\ key_log' = key_log \cup
                    {[run           |-> arch_run,
                      attachment_id |-> a.attachment_id,
                      message_id    |-> a.message_id,
                      filename      |-> a.filename,
                      key           |-> a.s3_key]}
    \* line 427: if i < total_attachments - 1
    /\ IF arch_i < Len(attachments_messages) - 1
       THEN arch_pc' = "delay" /\ arch_i' = arch_i
       ELSE arch_pc' = "loop" /\ arch_i' = arch_i + 1
    /\ UNCHANGED <<mainVars, arch_run, arch_sleeps, bucket, labelled,
                   listVars, fetchVars, lookupVars, extractVars>>

\* One iteration whose try block raises (lines 411-424): the failure is
\* recorded and the loop continues, after a cooldown when the error text
\* names a quota or a rate
ArchiveFails ==
    /\ arch_pc = "loop"
    /\ arch_i < Len(attachments_messages)
    /\ \E fetch \in FetchOutcomes :
          LET a == CurrentAttempt(fetch)
          IN  /\ a.raised # <<>>
              /\ arch_trace' = a
              /\ upload_results' =
                    DictSet(upload_results, a.attachment_id,
                            FailureOutcome(a.filename, a.message_id, a.raised))
              /\ IF IsRateLimit(a.raised)
                 THEN arch_pc' = "cooldown" /\ arch_i' = arch_i
                 ELSE arch_pc' = "loop" /\ arch_i' = arch_i + 1
    /\ UNCHANGED <<mainVars, arch_run, arch_sleeps, key_log, bucket, labelled,
                   listVars, fetchVars, lookupVars, extractVars>>

\* line 428: time.sleep(delay_between_requests)
ArchiveDelay ==
    /\ arch_pc = "delay"
    /\ arch_sleeps' = Append(arch_sleeps, [after |-> arch_i, kind |-> "delay"])
    /\ arch_i' = arch_i + 1
    /\ arch_pc' = "loop"
    /\ UNCHANGED <<mainVars, arch_run, upload_results, arch_trace, key_log, bucket,
                   labelled, listVars, fetchVars, lookupVars, extractVars>>

\* lines 423-424: time.sleep(2.0), then continue
ArchiveCooldown ==
    /\ arch_pc = "cooldown"
    /\ arch_sleeps' = Append(arch_sleeps, [after |-> arch_i, kind |-> "cooldown"])
    /\ arch_i' = arch_i + 1
    /\ arch_pc' = "loop"
    /\ UNCHANGED <<mainVars, arch_run, upload_results, arch_trace, key_log, bucket,
                   labelled, listVars, fetchVars, lookupVars, extractVars>>

\* lines 430-433: the loop is over
ArchiveReturn ==
    /\ arch_pc = "loop"
    /\ arch_i = Len(attachments_messages)
    /\ arch_pc' = "returned"
    /\ UNCHANGED <<mainVars, arch_run, arch_i, upload_results, arch_sleeps, arch_trace,
                   key_log, bucket, labelled,
                   listVars, fetchVars, lookupVars, extractVars>>

\* the extractor, then one call of the worker on its result
ArchiveNext ==
    \/ ExtractItem
    \/ ExtractAdvance
    \/ ExtractReturn
    \/ ArchiveStart
    \/ ArchiveSucceeds
    \/ ArchiveFails
    \/ ArchiveDelay
    \/ ArchiveCooldown
    \/ ArchiveReturn

\* ---- the worker called on given records, more than once ----

\* filenames of the records handed to the worker: names the extractor
\* accepts
RecordFilenames == {
    <<"r", ".", "c", "s", "v">>,        \* r.csv
    <<"r", ".", "P", "D", "F">> }       \* r.PDF

\* attachments_messages: up to MaxRecords records with distinct ids, the
\* i-th record owned by item i
RecordDicts ==
    UNION {{[i \in 1..n |-> <<AttId(i, 1), <<i, name[i]>> >>] :
              name \in [1..n -> RecordFilenames]}
             : n \in 0..MaxRecords}

\* the lookups handed to the worker
RecordLookups ==
    { << <<1, EntryA>> >>,
      << <<2, EntryBC>> >>,
      << <<1, EntryA>>, <<2, EntryBC>> >>,
      << <<1, EntryBC>>, <<2, EntryA>> >> }

\* get_attachments_messages has returned one of the given dicts
ExtractReturned ==
    /\ ext_pc = "returned"
    /\ attachments_messages \in RecordDicts
    /\ full_ids = <<>>
    /\ ext_seen = 0
    /\ ext_payload = NoPayload
    /\ attachments = <<>>
    /\ ext_calls = <<>>
    /\ accepted_seen = Len(attachments_messages)

RearchiveNext ==
    \/ ArchiveStart
    \/ ArchiveSucceeds
    \/ ArchiveFails
    \/ ArchiveDelay
    \/ ArchiveCooldown
    \/ ArchiveReturn
    \/ ArchiveAgain

-----------------------------------------------------------------------------
(* Claims about the Archival Worker and the Key Deriver, checked under     *)
(* SpecArchive.                                                            *)

\* the outcomes recorded so far
RecordedOutcomes == {upload_results[i][2] : i \in DOMAIN upload_results}

\* the number of attempts made in the current call
Attempts == IF arch_pc \in {"delay", "cooldown"} THEN arch_i + 1 ELSE arch_i

\* C14: when the worker returns, the number of outcomes equals the number
\* of accepted parts in the trees of the items, and so does the number of
\* attachment records.
C14_OutcomesEqualAcceptedParts ==
    arch_pc = "returned" =>
        /\ Len(attachments_messages) = accepted_seen
        /\ Len(upload_results) = accepted_seen

\* the error text of the failure of the last attempt, <<>> when it did not
\* fail
FailureOfLastAttempt ==
    CASE arch_trace.fetched = "error"    -> ServerErrorText
      [] arch_trace.fetched = "rate"     -> RateLimitText
      [] arch_trace.fetched = "bad_data" -> PaddingText
      [] arch_trace.fetched = "ok"
           /\ arch_trace.message_id \in DictKeySet(metadata_lookup)
           /\ ~EndsWith(arch_trace.filename, <<"p", "d", "f">>)
           /\ ~EndsWith(arch_trace.filename, <<"c", "s", "v">>) -> UnboundLocalText
      [] OTHER -> <<>>

\* C15: a failed attempt (fetch error, decode error, key derivation error)
\* is recorded as the outcome of its attachment with success = FALSE and
\* the error text; the worker never stops early: every record up to the
\* current one has exactly one outcome, in the order of the records, and
\* the worker returns only after the last record.
C15_FailureRecordedAndContained ==
    /\ (arch_trace.fetched # "none" /\ FailureOfLastAttempt # <<>>) =>
          /\ arch_trace.attachment_id \in DictKeySet(upload_results)
          /\ DictValue(upload_results, arch_trace.attachment_id) =
                [success    |-> FALSE,
                 filename   |-> arch_trace.filename,
                 message_id |-> arch_trace.message_id,
                 error      |-> FailureOfLastAttempt]
    /\ arch_pc # "idle" =>
          DictKeys(upload_results) =
              SubSeq(DictKeys(attachments_messages), 1, Attempts)
    /\ arch_pc = "returned" => Attempts = Len(attachments_messages)

\* the first attachment failed, a later one was archived, the worker
\* returned
C15_Witness ==
    /\ arch_pc = "returned"
    /\ Len(upload_results) >= 2
    /\ ~upload_results[1][2].success
    /\ upload_results[Len(upload_results)][2].success

\* C16: every outcome with success = TRUE has its decoded bytes in the
\* object store under the outcome's key.
C16_SuccessMeansStored ==
    /\ \A o \in RecordedOutcomes : o.success => o.s3_key \in DictKeySet(bucket)
    /\ (arch_trace.fetched # "none" /\ arch_trace.raised = <<>>) =>
          /\ arch_trace.s3_key \in DictKeySet(bucket)
          /\ DictValue(bucket, arch_trace.s3_key) = arch_trace.file_data

\* C17: the owner of every successfully archived attachment carries the
\* processed label, and no item without a successful outcome carries it.
C17_SuccessMeansLabelled ==
    /\ \A o \in RecordedOutcomes : o.success => o.message_id \in labelled
    /\ \A id \in labelled : \E o \in RecordedOutcomes : o.success /\ o.message_id = id

\* the log entries of the calls made for the record of the last attempt
EntriesOfLastAttempt ==
    {e \in key_log : /\ e.attachment_id = arch_trace.attachment_id
                     /\ e.message_id = arch_trace.message_id
                     /\ e.filename = arch_trace.filename}

\* C18: when a record was archived in the first call and is archived again
\* in the second, the key is the same both times and the object store
\* holds exactly one object under it.
C18_TwiceSameKeyOneObject ==
    (/\ arch_run = 2
     /\ arch_trace.message_id \in DictKeySet(metadata_lookup)
     /\ arch_trace.fetched # "none"
     /\ arch_trace.raised = <<>>
     /\ \E e \in EntriesOfLastAttempt : e.run = 1) =>
        /\ \A e \in EntriesOfLastAttempt : e.key = arch_trace.s3_key
        /\ Cardinality({i \in DOMAIN bucket : bucket[i][1] = arch_trace.s3_key}) = 1

\* C19: two calls of create_filename with equal attachment id, message id,
\* filename, vendor and date return equal keys, whatever was called before
\* and whatever else the lookup holds.
C19_KeyDeterministic ==
    /\ \A e1, e2 \in key_log :
          (/\ e1.attachment_id = e2.attachment_id
           /\ e1.message_id = e2.message_id
           /\ e1.filename = e2.filename) => e1.key = e2.key
    /\ \A e \in EntriesOfLastAttempt : \A other \in LookupsUpTo(MaxRecords) :
          (/\ e.message_id \in DictKeySet(metadata_lookup)
           /\ e.message_id \in DictKeySet(other)
           /\ DictValue(other, e.message_id) = DictValue(metadata_lookup, e.message_id))
          => CreateFilename(e.attachment_id, e.message_id, e.filename, other).key
                = e.key

\* the same record got its key in both calls of the worker, with a lookup
\* of two entries
C19_Witness ==
    /\ Len(metadata_lookup) = 2
    /\ \E e1, e2 \in key_log :
          /\ e1.run = 1
          /\ e2.run = 2
          /\ e1.attachment_id = e2.attachment_id
          /\ e1.key = DictValue(upload_results, e1.attachment_id).s3_key
          /\ StartsWith(e1.key, <<"B", "+", "C", "_">>)

\* the date component of a key: the ten characters after the vendor and
\* its underscore
DateComponent(e) ==
    LET vendor == DictValue(metadata_lookup, e.message_id).vendor
    IN  SubSeq(e.key, Len(vendor) + 2, Len(vendor) + 11)

\* C20: the date component of every key returned for an owner in the
\* lookup contains no '/': it is the lookup date with every '/' turned
\* into '-'.
C20_DateHasNoSlash ==
    \A e \in key_log :
        e.message_id \in DictKeySet(metadata_lookup) =>
            LET date == DictValue(metadata_lookup, e.message_id).date
                comp == DateComponent(e)
            IN  /\ PositionsOf(comp, "/") = {}
                /\ Len(comp) = Len(date)
                /\ \A i \in DOMAIN date :
                      comp[i] = IF date[i] = "/" THEN "-" ELSE date[i]

\* a key was derived from a lookup date with two '/'
C20_Witness ==
    \E e \in key_log :
        /\ Cardinality(PositionsOf(DictValue(metadata_lookup, e.message_id).date, "/")) = 2
        /\ DateComponent(e) = <<"0", "1", "-", "0", "2", "-", "2", "0", "2", "5">>

\* the attempt whose try block reached create_filename (the fetch returned
\* and the data decoded) with a filename whose last three characters are
\* neither pdf nor csv
UnrecognisedExtensionAttempt ==
    /\ arch_trace.fetched = "ok"
    /\ arch_trace.message_id \in DictKeySet(metadata_lookup)
    /\ Last3(arch_trace.filename) # <<"p", "d", "f">>
    /\ Last3(arch_trace.filename) # <<"c", "s", "v">>

\* C21: create_filename called with a filename whose last three characters
\* are neither pdf nor csv returns a key to its caller and does not raise.
C21_UnknownTypeStillReturnsKey ==
    UnrecognisedExtensionAttempt =>
        /\ arch_trace.raised = <<>>
        /\ arch_trace.s3_key # NoneStr
        /\ ~CreateFilename(arch_trace.attachment_id, arch_trace.message_id,
                           arch_trace.filename, metadata_lookup).raised

\* a sleep of the worker was recorded after attempt i (counted from 0)
SleptAfter(i) == \E j \in DOMAIN arch_sleeps : arch_sleeps[j].after = i

CooledDownAfter(i) ==
    \E j \in DOMAIN arch_sleeps :
        arch_sleeps[j] = [after |-> i, kind |-> "cooldown"]

\* C26: no attempt that is not the first starts without a suspension since
\* the attempt before it, whether that one succeeded or failed.
C26_SuspensionBetweenAttempts ==
    \A i \in 0..(arch_i - 1) :
        i < Len(attachments_messages) - 1 => SleptAfter(i)

\* the text names a quota or a rate, in any letter case
NamesQuotaOrRate(text) ==
    \E i \in DOMAIN text : \E w \in {<<"q", "u", "o", "t", "a">>, <<"r", "a", "t", "e">>} :
        /\ i + Len(w) - 1 <= Len(text)
        /\ SameIgnoringCase(SubSeq(text, i, i + Len(w) - 1), w)

\* C27: the worker cools down after an attempt exactly when the attempt
\* failed with an error text naming a quota or a rate: after such a failure
\* the worker is in its cooldown or has cooled down, and the next attempt
\* starts only then; after any other failure and after a success it does
\* not cool down. The cooldowns recorded are those of failed attempts, at
\* most one each, and the worker still visits every record before it
\* returns.
C27_CooldownIffRateLimited ==
    /\ arch_trace.fetched # "none" =>
          IF NamesQuotaOrRate(arch_trace.raised)
          THEN /\ ~DictValue(upload_results, arch_trace.attachment_id).success
               /\ IF Attempts > arch_i
                  THEN arch_pc = "cooldown"
                  ELSE CooledDownAfter(Attempts - 1)
          ELSE /\ arch_pc # "cooldown"
               /\ ~CooledDownAfter(Attempts - 1)
    /\ \A j \in DOMAIN arch_sleeps :
          /\ arch_sleeps[j].kind = "cooldown" =>
                ~upload_results[arch_sleeps[j].after + 1][2].success
          /\ j > 1 => arch_sleeps[j - 1].after < arch_sleeps[j].after
    /\ arch_pc = "returned" => Len(upload_results) = Len(attachments_messages)

\* the first attempt hit a rate limit, the worker cooled down once, went
\* on to archive the second attachment and returned
C27_Witness ==
    /\ arch_pc = "returned"
    /\ Len(upload_results) >= 2
    /\ ~upload_results[1][2].success
    /\ NamesQuotaOrRate(upload_results[1][2].error)
    /\ upload_results[2][2].success
    /\ arch_sleeps = << [after |-> 0, kind |-> "cooldown"] >>

\* the position of item id in the lookup
LookupPosition(id) ==
    CHOOSE i \in DOMAIN metadata_lookup : metadata_lookup[i][1] = id

\* C29: the attachment records are in the order of their owners in the
\* lookup: when x precedes y in the lookup, every attachment of x precedes
\* every attachment of y; the worker attempts them in that order.
C29_AttachmentsInLookupOrder ==
    /\ \A i, j \in DOMAIN attachments_messages :
          LET x == attachments_messages[i][2][1]
              y == attachments_messages[j][2][1]
          IN  /\ x \in DictKeySet(metadata_lookup)
              /\ y \in DictKeySet(metadata_lookup)
              /\ LookupPosition(x) < LookupPosition(y) => i < j
    /\ arch_pc # "idle" =>
          DictKeys(upload_results) =
              SubSeq(DictKeys(attachments_messages), 1, Len(upload_results))

\* two items of the lookup have attachments, the first of them two; the
\* worker has attempted them all
C29_Witness ==
    /\ arch_pc = "returned"
    /\ Len(upload_results) = 3
    /\ attachments_messages[1][2][1] = attachments_messages[2][2][1]
    /\ attachments_messages[2][2][1] # attachments_messages[3][2][1]

\* C30: every accepted part whose owner is in the lookup and whose bytes
\* were fetched and decoded is archived: its outcome is a success carrying
\* the key create_filename returned.
C30_AcceptedPartsAreArchivable ==
    (/\ arch_trace.fetched = "ok"
     /\ arch_trace.message_id \in DictKeySet(metadata_lookup)) =>
        LET o == DictValue(upload_results, arch_trace.attachment_id)
        IN  /\ o.success
            /\ o.s3_key = CreateFilename(arch_trace.attachment_id,
                                         arch_trace.message_id,
                                         arch_trace.filename,
                                         metadata_lookup).key


-----------------------------------------------------------------------------
(* Pipeline Coordinator: main (src/main.py 434-513). Steps 1 and 2 and the *)
(* dump of the metadata map are the body of main; steps 3 to 6 stand in    *)
(* the source as comments (lines 481-513). SpecMain is main as it runs.    *)
(* SpecPipeline is the composition of the four functions of steps 1 to 4,  *)
(* each called on the previous one's result as those lines spell out;      *)
(* SpecHarvest is that of steps 4 to 6, from a lookup that was returned.   *)

\* message_metadata.json before main writes it
NoFile == [written |-> FALSE, content |-> <<>>]

MainIdle ==
    /\ main_pc = "idle"
    /\ metadata_file = NoFile

\* the id lists fetch_message_ids returns: the first n ids of the mailbox
Listings(n) == {[i \in 1..k |-> i] : k \in 0..n}

\* lines 457-460: fetch_message_ids has returned one of the given lists
ListReturned(listings) ==
    /\ pages = <<>>
    /\ list_pc = "returned"
    /\ response = NoResponse
    /\ message_ids \in listings
    /\ messages = IdsToStubs(message_ids)
    /\ list_requests = <<>>
    /\ list_error = FALSE

\* main has run up to the end of step 1
MainListed ==
    /\ main_pc = "step1"
    /\ metadata_file = NoFile

\* line 469: get_messages_metadata_batch(service, messages, batch_size=30,
\* delay_between_batches=0.5). The batch size of 30 is scaled to the short
\* lists of the model: any size in 1..MaxBatch, so that lists shorter and
\* longer than one batch both occur.
MainFetchMetadata ==
    /\ main_pc = "step1"
    /\ list_pc = "returned"
    /\ main_pc' = "step2"
    /\ granularity' = "metadata"
    /\ input_ids' = message_ids
    /\ batch_size' \in 1..MaxBatch
    /\ answer' \in [Range(message_ids) -> Outcomes]
    /\ batch_pc' = "start"
    /\ batch_num' = 0
    /\ result_map' = <<>>
    /\ chunk_log' = <<>>
    /\ sleeps' = <<>>
    /\ UNCHANGED <<metadata_file, listVars, lookupVars, extractVars, archVars>>

\* lines 471-479: json.dump(message_metadata_map) into message_metadata.json;
\* an error while opening or writing is printed and main goes on
MainSaveMetadata ==
    /\ main_pc = "step2"
    /\ batch_pc = "returned"
    /\ main_pc' = "saved"
    /\ \E written \in BOOLEAN :
          metadata_file' = IF written
                           THEN [written |-> TRUE, content |-> result_map]
                           ELSE NoFile
    /\ UNCHANGED <<listVars, fetchVars, lookupVars, extractVars, archVars>>

\* line 479: the body of main ends here, lines 481-513 are comments
MainReturn ==
    /\ main_pc = "saved"
    /\ main_pc' = "returned"
    /\ UNCHANGED <<metadata_file, listVars, fetchVars, lookupVars,
                   extractVars, archVars>>

MainNext ==
    \/ MainFetchMetadata
    \/ FetchNoIds
    \/ FetchBegin
    \/ FetchChunk
    \/ FetchChunkFails
    \/ FetchSleep
    \/ FetchReturn
    \/ MainSaveMetadata
    \/ MainReturn

\* ---- steps 1 to 4 composed ----

\* line 482: metadata_lookup = create_metadata_lookup(message_metadata_map).
\* The fetcher's frame is gone; the keys of its result are the ids the
\* interpreter visits.
PipeCreateLookup ==
    /\ main_pc = "step2"
    /\ batch_pc = "returned"
    /\ main_pc' = "step3"
    /\ lookup_pc' = "loop"
    /\ meta_total' = Len(result_map)
    /\ meta_ids' = DictKeys(result_map)
    /\ meta_seen' = 0
    /\ message_data' = None
    /\ metadata_lookup' = <<>>
    /\ item_trace' = NoLocals
    /\ batch_pc' = "idle"
    /\ input_ids' = <<>>
    /\ batch_size' = 1
    /\ answer' = <<>>
    /\ batch_num' = 0
    /\ chunk_log' = <<>>
    /\ sleeps' = <<>>
    /\ UNCHANGED <<granularity, result_map, metadata_file, listVars,
                   extractVars, archVars>>

\* line 227: message_ids = list(metadata_lookup.keys())
FullFetchInputAllListed(lookup) == message_ids

FullFetchInputAllFetched(lookup) == meta_ids

FullFetchInput(lookup) == DictKeys(lookup)

\* line 486: get_messages_full_batch(service, metadata_lookup, batch_size=25,
\* delay_between_batches=2.0). The batch size is scaled as in step 2.
PipeFetchFull ==
    /\ main_pc = "step3"
    /\ lookup_pc = "returned"
    /\ main_pc' = "step4"
    /\ granularity' = "full"
    /\ input_ids' = FullFetchInput(metadata_lookup)
    /\ batch_size' \in 1..MaxBatch
    /\ answer' \in [Range(input_ids') -> Outcomes]
    /\ batch_pc' = "start"
    /\ batch_num' = 0
    /\ result_map' = <<>>
    /\ chunk_log' = <<>>
    /\ sleeps' = <<>>
    /\ UNCHANGED <<metadata_file, listVars, lookupVars, extractVars, archVars>>

PipelineNext ==
    \/ MainFetchMetadata
    \/ FetchNoIds
    \/ FetchBegin
    \/ FetchChunk
    \/ FetchChunkFails
    \/ FetchSleep
    \/ FetchReturn
    \/ PipeCreateLookup
    \/ InterpretItem
    \/ LookupAdvance
    \/ LookupReturn
    \/ PipeFetchFull

\* ---- steps 4 to 6 composed ----

\* main has run up to the end of step 3
MainLookedUp ==
    /\ main_pc = "step3"
    /\ metadata_file = NoFile

\* line 490: messages_attachments =
\* get_attachments_messages(message_full_payload_map). The fetcher's frame
\* is gone; the keys of its result are the items the extractor visits.
PipeExtract ==
    /\ main_pc = "step4"
    /\ batch_pc = "returned"
    /\ ext_pc = "idle"
    /\ main_pc' = "step5"
    /\ ext_pc' = "loop"
    /\ full_ids' = DictKeys(result_map)
    /\ ext_seen' = 0
    /\ ext_payload' = NoPayload
    /\ attachments' = <<>>
    /\ ext_calls' = <<>>
    /\ attachments_messages' = <<>>
    /\ accepted_seen' = 0
    /\ batch_pc' = "idle"
    /\ input_ids' = <<>>
    /\ batch_size' = 1
    /\ answer' = <<>>
    /\ batch_num' = 0
    /\ chunk_log' = <<>>
    /\ sleeps' = <<>>
    /\ UNCHANGED <<granularity, result_map, metadata_file, listVars,
                   lookupVars, archVars>>

\* lines 494-501: if messages_attachments: fetch_and_upload_attachments(
\* messages_attachments, metadata_lookup, ...)
PipeArchive ==
    /\ main_pc = "step5"
    /\ attachments_messages # <<>>
    /\ ArchiveStart

\* lines 512-513: else: print("No attachments found to process")
PipeNoAttachments ==
    /\ main_pc = "step5"
    /\ ext_pc = "returned"
    /\ attachments_messages = <<>>
    /\ main_pc' = "returned"
    /\ UNCHANGED <<metadata_file, listVars, fetchVars, lookupVars,
                   extractVars, archVars>>

HarvestNext ==
    \/ PipeFetchFull
    \/ FetchNoIds
    \/ FetchBegin
    \/ FetchChunk
    \/ FetchChunkFails
    \/ FetchSleep
    \/ FetchReturn
    \/ PipeExtract
    \/ ExtractItem
    \/ ExtractAdvance
    \/ ExtractReturn
    \/ PipeArchive
    \/ PipeNoAttachments
    \/ ArchiveSucceeds
    \/ ArchiveFails
    \/ ArchiveDelay
    \/ ArchiveCooldown
    \/ ArchiveReturn

-----------------------------------------------------------------------------
(* Claims about the Pipeline Coordinator, checked under SpecPipeline,      *)
(* SpecMain and SpecHarvest.                                               *)

\* C22: the ids flow monotonically through the stages. The keys of the
\* metadata map are the listed ids whose metadata sub-request succeeded in
\* a chunk that returned; the keys of the lookup are among them; the ids
\* requested in full-content mode are the keys of the lookup, in order, and
\* the full-content map holds no other id. An id that is not a key of the
\* metadata map is not in the lookup and is never requested in full-content
\* mode.
C22_IdsFlowMonotonically ==
    /\ Range(meta_ids) \subseteq Range(message_ids)
    /\ DictKeySet(metadata_lookup) \subseteq Range(meta_ids)
    /\ main_pc = "step2" =>
          /\ input_ids = message_ids
          /\ DictKeySet(result_map) \subseteq
                {id \in Range(message_ids) : answer[id] = "ok"}
          /\ batch_pc = "returned" =>
                DictKeySet(result_map) = {id \in RequestedOk : answer[id] = "ok"}
    /\ main_pc = "step3" => meta_ids = DictKeys(result_map)
    /\ main_pc = "step4" =>
          /\ input_ids = DictKeys(metadata_lookup)
          /\ \A i \in DOMAIN chunk_log :
                Range(chunk_log[i].ids) \subseteq DictKeySet(metadata_lookup)
          /\ batch_pc = "returned" =>
                ConcatChunks(Len(chunk_log)) = DictKeys(metadata_lookup)
          /\ DictKeySet(result_map) \subseteq DictKeySet(metadata_lookup)
          /\ \A id \in Range(message_ids) \ Range(meta_ids) :
                /\ id \notin DictKeySet(metadata_lookup)
                /\ TimesRequested(id) = 0

\* two ids were listed, the metadata fetch of the first failed, the lookup
\* holds the second and the full-content fetch has requested it, alone
C22_Witness ==
    /\ main_pc = "step4"
    /\ batch_pc = "returned"
    /\ message_ids = <<1, 2>>
    /\ meta_ids = <<2>>
    /\ DictKeys(metadata_lookup) = <<2>>
    /\ ConcatChunks(Len(chunk_log)) = <<2>>
    /\ TimesRequested(1) = 0

\* C23: when main returns, every stage has run to its end, in the order
\* list, metadata fetch, interpret, full-content fetch, extract, archive.
C23_RunExecutesAllStages ==
    main_pc = "returned" =>
        /\ list_pc = "returned"
        /\ lookup_pc = "returned"
        /\ granularity = "full"
        /\ batch_pc = "returned"
        /\ ext_pc = "returned"
        /\ arch_pc = "returned"

\* the key is of the form unknown_<filename>
UnknownKey(key) == key # NoneStr /\ StartsWith(key, UnknownPrefix)

\* C31: in a run of steps 4 to 6 on a lookup, the ids requested in full,
\* the items the extractor visits and the owner of every attachment record
\* are keys of the lookup; create_filename is never called for an owner
\* outside the lookup and no attempt, outcome or logged key carries a key
\* of the form unknown_<filename>.
C31_OwnersAreLookupKeys ==
    /\ Range(input_ids) \subseteq DictKeySet(metadata_lookup)
    /\ Range(full_ids) \subseteq DictKeySet(metadata_lookup)
    /\ \A i \in DOMAIN attachments_messages :
          attachments_messages[i][2][1] \in DictKeySet(metadata_lookup)
    /\ arch_trace.fetched # "none" =>
          /\ arch_trace.message_id \in DictKeySet(metadata_lookup)
          /\ ~UnknownKey(arch_trace.s3_key)
    /\ \A o \in RecordedOutcomes : o.success => ~UnknownKey(o.s3_key)
    /\ \A e \in key_log : ~UnknownKey(e.key)

\* the lookup holds two items, the full content of the first could not be
\* fetched, an attachment of the second was archived under a key that
\* starts with its vendor
C31_Witness ==
    /\ arch_pc = "returned"
    /\ DictKeys(metadata_lookup) = <<1, 2>>
    /\ full_ids = <<2>>
    /\ \E o \in RecordedOutcomes :
          /\ o.success
          /\ o.message_id = 2
          /\ StartsWith(o.s3_key, DictValue(metadata_lookup, 2).vendor \o <<"_">>)

-----------------------------------------------------------------------------
InitList == ListInit /\ FetchIdle /\ LookupIdle /\ ExtractIdle /\ ArchIdle
    /\ MainIdle

InitFetch == ListIdle /\ FetchInit /\ LookupIdle /\ ExtractIdle /\ ArchIdle
    /\ MainIdle

InitArchive ==
    ListIdle /\ FetchIdle /\ LookupReturned(LookupsByKey) /\ ExtractInit /\ ArchIdle
    /\ MainIdle

SpecArchive == InitArchive /\ [][ArchiveNext]_vars

InitRearchive ==
    ListIdle /\ FetchIdle /\ LookupReturned(RecordLookups) /\ ExtractReturned /\ ArchIdle
    /\ MainIdle

SpecRearchive == InitRearchive /\ [][RearchiveNext]_vars

SpecList == InitList /\ [][ListNext]_vars

SpecFetch == InitFetch /\ [][FetchNext]_vars

InitLookup == ListIdle /\ FetchIdle /\ LookupInit /\ ExtractIdle /\ ArchIdle
    /\ MainIdle

SpecLookup == InitLookup /\ [][LookupNext]_vars

InitMain ==
    ListReturned(DistinctSeqs) /\ FetchIdle /\ LookupIdle /\ ExtractIdle /\ ArchIdle
    /\ MainListed

SpecMain == InitMain /\ [][MainNext]_vars

InitPipeline ==
    ListReturned(Listings(MaxListed)) /\ FetchIdle /\ LookupIdle /\ ExtractIdle /\ ArchIdle
    /\ MainListed

SpecPipeline == InitPipeline /\ [][PipelineNext]_vars

InitHarvest ==
    ListReturned({[i \in 1..MaxFull |-> i]}) /\ FetchIdle
    /\ LookupReturned(LookupsByKey) /\ ExtractIdle /\ ArchIdle
    /\ MainLookedUp

SpecHarvest == InitHarvest /\ [][HarvestNext]_vars

=============================================================================
